---- MODULE Spec2Model ----
(***************************************************************************)
(* Benchmark-log analysis scripts of rsx207-wasm-bench (src/scripts).      *)
(*                                                                         *)
(* Numbers.  A Python float is modelled by the exact rational it stands    *)
(* for, [n |-> numerator, d |-> denominator > 0] in lowest terms; the      *)
(* result of statistics.stdev is the square root of a rational and is kept *)
(* as that rational, [sq |-> variance].  A raised Python exception is the  *)
(* record [err |-> its name].                                              *)
(***************************************************************************)
EXTENDS Integers, Sequences, FiniteSets, TLC

VARIABLES
    samples,   \* the sample collection handed to one aggregator site
    stats,     \* what that site computed
    pc,        \* where the running script stands
    data,      \* the data mapping the script builds from its input
    printed,   \* the lines the script has printed, and the exception that ended it
    script,    \* the log-analysis script that is running
    pos,       \* the load it is at, and the files of that directory opened so far
    cur,       \* the collection the running loader has built so far
    seen,      \* the lines read so far: how many, and the text each match captured
    SCIPY_AVAILABLE,  \* whether the import of scipy succeeded
    OUT_DIR    \* the files of results/processed this run has written, by name

vars == <<samples, stats, pc, data, printed, script, pos, cur, seen,
          SCIPY_AVAILABLE, OUT_DIR>>

statsVars == <<samples, stats>>

logVars == <<script, pos, cur, seen, SCIPY_AVAILABLE, OUT_DIR>>

runVars == <<pc, data, printed, logVars>>

(* No log-analysis script is running. *)
NoLog ==
    /\ script = "none"
    /\ pos = [load |-> 0, files |-> 0, pass |-> 0]
    /\ cur = <<>>
    /\ seen = <<>>
    /\ SCIPY_AVAILABLE = FALSE
    /\ OUT_DIR = <<>>

(***************************************************************************)
(* Bounds of the model.                                                    *)
(***************************************************************************)
MaxLen == 3

MaxVal == 3

(***************************************************************************)
(* Rational arithmetic.                                                    *)
(***************************************************************************)
Abs(x) == IF x < 0 THEN -x ELSE x

RECURSIVE GCD(_, _)
GCD(a, b) == IF b = 0 THEN a ELSE GCD(b, a % b)

Rat(num, den) ==
    LET g == GCD(Abs(num), Abs(den))
        s == IF den < 0 THEN -1 ELSE 1
    IN  [n |-> (s * num) \div g, d |-> (s * den) \div g]

RInt(k) == [n |-> k, d |-> 1]

RAdd(a, b) == Rat(a.n * b.d + b.n * a.d, a.d * b.d)

RSub(a, b) == Rat(a.n * b.d - b.n * a.d, a.d * b.d)

RMul(a, b) == Rat(a.n * b.n, a.d * b.d)

RLe(a, b) == a.n * b.d <= b.n * a.d

RLt(a, b) == a.n * b.d < b.n * a.d

RAbs(a) == [n |-> Abs(a.n), d |-> a.d]

(* A raised exception, and the test for one. *)
Err(name) == [err |-> name]

IsErr(x) == "err" \in DOMAIN x

(* Python's a / b on floats: ZeroDivisionError when b is 0. *)
PyDiv(a, b) == IF b.n = 0 THEN Err("ZeroDivisionError") ELSE Rat(a.n * b.d, a.d * b.n)

RECURSIVE SumSeq(_)
SumSeq(xs) == IF xs = <<>> THEN RInt(0) ELSE RAdd(Head(xs), SumSeq(Tail(xs)))

RECURSIVE SumSq(_)
SumSq(xs) == IF xs = <<>> THEN RInt(0) ELSE RAdd(RMul(Head(xs), Head(xs)), SumSq(Tail(xs)))

(* Largest s with s * s <= x, for x >= 0, by bisection of lo..hi. *)
RECURSIVE ISqrtIn(_, _, _)
ISqrtIn(x, lo, hi) ==
    IF hi - lo <= 1 THEN lo
    ELSE LET mid == (lo + hi) \div 2
         IN  IF mid * mid <= x THEN ISqrtIn(x, mid, hi) ELSE ISqrtIn(x, lo, mid)

(* 46340 is the largest root whose square fits the checker's integers. *)
ISqrt(x) == ISqrtIn(x, 0, IF x + 1 < 46341 THEN x + 1 ELSE 46341)

(***************************************************************************)
(* Text.  A piece of text is a sequence of one-character strings.          *)
(* float(text) for text made of digits, dots and a leading sign: one dot   *)
(* at most and one digit at least, else ValueError.  int(text): digits     *)
(* only.                                                                   *)
(***************************************************************************)
Digits == {"0", "1", "2", "3", "4", "5", "6", "7", "8", "9"}

DigitVal(c) ==
    CASE c = "0" -> 0 [] c = "1" -> 1 [] c = "2" -> 2 [] c = "3" -> 3 [] c = "4" -> 4
      [] c = "5" -> 5 [] c = "6" -> 6 [] c = "7" -> 7 [] c = "8" -> 8 [] c = "9" -> 9

RECURSIVE Pow10(_)
Pow10(k) == IF k = 0 THEN 1 ELSE 10 * Pow10(k - 1)

(* The number written by the digits of text, its dots skipped. *)
RECURSIVE DigitsValue(_, _)
DigitsValue(text, acc) ==
    IF text = <<>> THEN acc
    ELSE IF Head(text) = "." THEN DigitsValue(Tail(text), acc)
    ELSE DigitsValue(Tail(text), 10 * acc + DigitVal(Head(text)))

CountOf(text, c) == Cardinality({i \in 1..Len(text) : text[i] = c})

DotAt(text) == CHOOSE i \in 1..Len(text) : text[i] = "."

PyFloatUnsigned(text) ==
    IF \/ \E i \in 1..Len(text) : text[i] \notin Digits \cup {"."}
       \/ CountOf(text, ".") > 1
       \/ CountOf(text, ".") = Len(text)
    THEN Err("ValueError")
    ELSE IF CountOf(text, ".") = 0 THEN RInt(DigitsValue(text, 0))
    ELSE Rat(DigitsValue(text, 0), Pow10(Len(text) - DotAt(text)))

PyFloat(text) ==
    IF text # <<>> /\ Head(text) = "-"
    THEN LET v == PyFloatUnsigned(Tail(text))
         IN  IF IsErr(v) THEN v ELSE Rat(-v.n, v.d)
    ELSE PyFloatUnsigned(text)

PyIntOk(text) == text # <<>> /\ \A i \in 1..Len(text) : text[i] \in Digits

PyInt(text) == IF PyIntOk(text) THEN RInt(DigitsValue(text, 0)) ELSE Err("ValueError")

(***************************************************************************)
(* Python built-ins and the statistics module, as the scripts call them.   *)
(***************************************************************************)
RECURSIVE Insert(_, _)
Insert(x, sorted) ==
    IF sorted = <<>> THEN <<x>>
    ELSE IF RLe(x, Head(sorted)) THEN <<x>> \o sorted
    ELSE <<Head(sorted)>> \o Insert(x, Tail(sorted))

RECURSIVE Sorted(_)
Sorted(xs) == IF xs = <<>> THEN <<>> ELSE Insert(Head(xs), Sorted(Tail(xs)))

PyMin(xs) == Sorted(xs)[1]

PyMax(xs) == Sorted(xs)[Len(xs)]

Mean(xs) ==
    IF xs = <<>> THEN Err("StatisticsError") ELSE PyDiv(SumSeq(xs), RInt(Len(xs)))

Median(xs) ==
    LET s == Sorted(xs)
        n == Len(xs)
    IN  IF n = 0 THEN Err("StatisticsError")
        ELSE IF n % 2 = 1 THEN s[(n \div 2) + 1]
        ELSE PyDiv(RAdd(s[n \div 2], s[(n \div 2) + 1]), RInt(2))

(* statistics.variance: (sum x^2 - (sum x)^2 / n) / (n - 1), exactly. *)
Variance(xs) ==
    LET n  == Len(xs)
        sx == SumSeq(xs)
    IN  PyDiv(RSub(SumSq(xs), PyDiv(RMul(sx, sx), RInt(n))), RInt(n - 1))

(* A population-variance slip (denominator n), used to mutate Stdev. *)
StdevPopulation(xs) ==
    LET n  == Len(xs)
        sx == SumSeq(xs)
    IN  IF n < 2 THEN Err("StatisticsError")
        ELSE [sq |-> PyDiv(RSub(SumSq(xs), PyDiv(RMul(sx, sx), RInt(n))), RInt(n))]

Stdev(xs) == IF Len(xs) < 2 THEN Err("StatisticsError") ELSE [sq |-> Variance(xs)]

(* The int literal 0 the scripts substitute for a standard deviation. *)
ZeroStdev == [sq |-> RInt(0)]

(***************************************************************************)
(* analyze_cold_start_comparison.py                                        *)
(***************************************************************************)
EmptyDict == [k \in {} |-> 0]

(* The guard len(values) > 1 slipped to len(values) > 0, used to mutate ComputeStats. *)
ComputeStatsGuardSlip(values) ==
    IF values = <<>> THEN EmptyDict
    ELSE [mean   |-> Mean(values),
          median |-> Median(values),
          stdev  |-> IF Len(values) > 0 THEN Stdev(values) ELSE ZeroStdev,
          min    |-> PyMin(values),
          max    |-> PyMax(values),
          count  |-> Len(values)]

(* min and max read off the ends of the list as it came, used to mutate    *)
(* ComputeStats.                                                           *)
ComputeStatsEndpoints(values) ==
    IF values = <<>> THEN EmptyDict
    ELSE [mean   |-> Mean(values),
          median |-> Median(values),
          stdev  |-> IF Len(values) > 1 THEN Stdev(values) ELSE ZeroStdev,
          min    |-> values[1],
          max    |-> values[Len(values)],
          count  |-> Len(values)]

ComputeStats(values) ==
    IF values = <<>> THEN EmptyDict
    ELSE [mean   |-> Mean(values),
          median |-> Median(values),
          stdev  |-> IF Len(values) > 1 THEN Stdev(values) ELSE ZeroStdev,
          min    |-> PyMin(values),
          max    |-> PyMax(values),
          count  |-> Len(values)]

(* plot_grouped_bar: the mean and the error bar of one scenario. *)
PlotGroupedBarStats(times) ==
    [mean  |-> IF times # <<>> THEN Mean(times) ELSE RInt(0),
     stdev |-> IF Len(times) > 1 THEN Stdev(times) ELSE ZeroStdev]

(***************************************************************************)
(* Number formatting.  The text of f"{x:.2f}" is determined by the number  *)
(* of hundredths it shows, x rounded to the nearest hundredth, an exact    *)
(* tie to the even one; float(text) gives back hundredths / 100.           *)
(***************************************************************************)
FmtFixed(x, scale) ==
    LET q == (scale * x.n) \div x.d
        r == scale * x.n - q * x.d
    IN  IF 2 * r > x.d THEN q + 1
        ELSE IF 2 * r = x.d THEN (IF q % 2 = 0 THEN q ELSE q + 1)
        ELSE q

(* f"{x:.1f}": the number of tenths shown. *)
Fmt1(x) == FmtFixed(x, 10)

(* Truncation instead of rounding, used to mutate Fmt2. *)
Fmt2Truncate(x) == (100 * x.n) \div x.d

(* The same for a standard deviation sqrt(v): the h with                   *)
(* (2h - 1)^2 <= 40000 v < (2h + 1)^2.                                      *)
Fmt2Sqrt(s) == (ISqrt((40000 * s.sq.n) \div s.sq.d) + 1) \div 2

Fmt2(x) == FmtFixed(x, 100)

ParseFmt2(hundredths) == Rat(hundredths, 100)

(***************************************************************************)
(* generate_summary.py                                                     *)
(***************************************************************************)
CalculatePercentileNoSort(xs, percentile) ==
    IF xs = <<>> THEN RInt(0)
    ELSE LET index == (Len(xs) * percentile) \div 100
         IN  xs[(IF index < Len(xs) - 1 THEN index ELSE Len(xs) - 1) + 1]

CalculatePercentile(xs, percentile) ==
    IF xs = <<>> THEN RInt(0)
    ELSE LET sorted_samples == Sorted(xs)
             index == (Len(sorted_samples) * percentile) \div 100
         IN  sorted_samples[(IF index < Len(sorted_samples) - 1
                             THEN index ELSE Len(sorted_samples) - 1) + 1]

(* One row of the markdown table: no row for an empty sample list. *)
MarkdownRow(rt, xs, unit) ==
    IF xs = <<>> THEN <<>>
    ELSE LET mean_val   == Mean(xs)
             median_val == Median(xs)
             stdev_val  == IF Len(xs) > 1 THEN Stdev(xs) ELSE ZeroStdev
         IN  <<[rt      |-> rt,
                mean    |-> [text |-> Fmt2(mean_val), unit |-> unit],
                median  |-> [text |-> Fmt2(median_val), unit |-> unit],
                stdev   |-> [text |-> Fmt2Sqrt(stdev_val)],
                min     |-> [text |-> Fmt2(PyMin(xs))],
                max     |-> [text |-> Fmt2(PyMax(xs))],
                n       |-> Len(xs),
                stdev_val |-> stdev_val]>>

(* One row of the LaTeX table. *)
LatexRow(rt, xs) ==
    IF xs = <<>> THEN <<>>
    ELSE LET stdev_val == IF Len(xs) > 1 THEN Stdev(xs) ELSE ZeroStdev
         IN  <<[rt     |-> rt,
                mean   |-> [text |-> Fmt2(Mean(xs))],
                median |-> [text |-> Fmt2(Median(xs))],
                stdev  |-> [text |-> Fmt2Sqrt(stdev_val)],
                min    |-> [text |-> Fmt2(PyMin(xs))],
                stdev_val |-> stdev_val]>>

(***************************************************************************)
(* analyze_cpu_hash_comparison.py                                          *)
(***************************************************************************)
(* The summary line with the population deviation, used to mutate          *)
(* CpuHashSummaryLine.                                                     *)
CpuHashSummaryLinePopulation(rt, xs) ==
    [rt     |-> rt,
     mean   |-> Mean(xs),
     median |-> Median(xs),
     stdev  |-> IF Len(xs) > 1 THEN StdevPopulation(xs) ELSE ZeroStdev,
     min    |-> PyMin(xs),
     max    |-> PyMax(xs),
     n      |-> Len(xs)]

(* One line of the CPU-HASH SUMMARY loop, for a runtime kept in data. *)
CpuHashSummaryLine(rt, xs) ==
    [rt     |-> rt,
     mean   |-> Mean(xs),
     median |-> Median(xs),
     stdev  |-> IF Len(xs) > 1 THEN Stdev(xs) ELSE ZeroStdev,
     min    |-> PyMin(xs),
     max    |-> PyMax(xs),
     n      |-> Len(xs)]

(***************************************************************************)
(* analyze_http_hello_scaling.py                                           *)
(***************************************************************************)
(* print_summary: the throughput figures of one concurrency level. *)
ScalingSummaryLine(tp_vals) ==
    IF tp_vals = <<>> THEN <<>>
    ELSE <<[tp_mean  |-> Mean(tp_vals),
            stdev    |-> IF Len(tp_vals) > 1 THEN Stdev(tp_vals) ELSE ZeroStdev,
            samples  |-> Len(tp_vals)]>>

(***************************************************************************)
(* analyze_http_hello_stateful.py                                          *)
(***************************************************************************)
(* print_summary: mean, median and deviation of one endpoint's latencies. *)
StatefulSummaryStats(lat) ==
    [mean   |-> Mean(lat),
     median |-> Median(lat),
     stdev  |-> IF Len(lat) > 1 THEN Stdev(lat) ELSE ZeroStdev,
     n      |-> Len(lat)]

(***************************************************************************)
(* The aggregator applied to one sample collection.                        *)
(***************************************************************************)
Values == {RInt(k) : k \in 0..MaxVal}

SeqsUpTo(S, n) == UNION {[1..k -> S] : k \in 0..n}

NoStats == [site |-> "none"]

InitStats ==
    /\ samples \in SeqsUpTo(Values, MaxLen)
    /\ stats = NoStats
    /\ pc = "aggregate"
    /\ data = <<>>
    /\ printed = <<>>
    /\ NoLog

DoComputeStats ==
    /\ stats = NoStats
    /\ stats' = [site |-> "compute_stats", out |-> ComputeStats(samples)]
    /\ UNCHANGED <<samples, runVars>>

DoPlotGroupedBar ==
    /\ stats = NoStats
    /\ stats' = [site |-> "plot_grouped_bar", out |-> PlotGroupedBarStats(samples)]
    /\ UNCHANGED <<samples, runVars>>

DoMarkdownRow ==
    /\ stats = NoStats
    /\ stats' = [site |-> "markdown", rows |-> MarkdownRow("native", samples, "ms")]
    /\ UNCHANGED <<samples, runVars>>

DoLatexRow ==
    /\ stats = NoStats
    /\ stats' = [site |-> "latex", rows |-> LatexRow("native", samples)]
    /\ UNCHANGED <<samples, runVars>>

(* main keeps a runtime in data only when its sample list is non-empty. *)
DoCpuHashSummary ==
    /\ stats = NoStats
    /\ samples # <<>>
    /\ stats' = [site |-> "cpu_hash", out |-> CpuHashSummaryLine("native", samples)]
    /\ UNCHANGED <<samples, runVars>>

DoScalingSummary ==
    /\ stats = NoStats
    /\ stats' = [site |-> "scaling", rows |-> ScalingSummaryLine(samples)]
    /\ UNCHANGED <<samples, runVars>>

(* by_path holds a path only once a latency was appended to it. *)
DoStatefulSummary ==
    /\ stats = NoStats
    /\ samples # <<>>
    /\ stats' = [site |-> "stateful", out |-> StatefulSummaryStats(samples)]
    /\ UNCHANGED <<samples, runVars>>

DoCalculatePercentile ==
    /\ stats = NoStats
    /\ \E p \in 0..100 :
         stats' = [site |-> "percentile", p |-> p,
                   out |-> CalculatePercentile(samples, p)]
    /\ UNCHANGED <<samples, runVars>>

NextStats ==
    \/ DoComputeStats
    \/ DoPlotGroupedBar
    \/ DoMarkdownRow
    \/ DoLatexRow
    \/ DoCpuHashSummary
    \/ DoScalingSummary
    \/ DoStatefulSummary
    \/ DoCalculatePercentile

SpecStats == InitStats /\ [][NextStats]_vars

(* Whether the site that ran reported a standard deviation, and which. *)
HasStdev ==
    CASE stats.site \in {"compute_stats"} -> "stdev" \in DOMAIN stats.out
      [] stats.site \in {"plot_grouped_bar", "cpu_hash", "stateful"} -> TRUE
      [] stats.site \in {"markdown", "latex", "scaling"} -> stats.rows # <<>>
      [] OTHER -> FALSE

ReportedStdev ==
    CASE stats.site \in {"compute_stats", "plot_grouped_bar", "cpu_hash", "stateful"} ->
           stats.out.stdev
      [] stats.site = "scaling" -> stats.rows[1].stdev
      [] stats.site \in {"markdown", "latex"} -> stats.rows[1].stdev_val

StdevSites ==
    {"compute_stats", "plot_grouped_bar", "cpu_hash", "stateful", "markdown", "latex",
     "scaling"}

(* The sample variance from its definition: sum (x - mean)^2 / (n - 1). *)
RECURSIVE SumSqDev(_, _)
SumSqDev(xs, m) ==
    IF xs = <<>> THEN RInt(0)
    ELSE RAdd(RMul(RSub(Head(xs), m), RSub(Head(xs), m)), SumSqDev(Tail(xs), m))

TextbookVariance(xs) ==
    LET m == Rat(SumSeq(xs).n, SumSeq(xs).d * Len(xs))
    IN  Rat(SumSqDev(xs, m).n, SumSqDev(xs, m).d * (Len(xs) - 1))

\* C1: with at least two samples, every site that reports a standard deviation
\* reports the square root of the sample variance sum (x - mean)^2 / (n - 1).
C1_StdevIsSampleStdev ==
    (stats.site \in StdevSites /\ Len(samples) >= 2) =>
        /\ HasStdev
        /\ ReportedStdev = [sq |-> TextbookVariance(samples)]

C1_Witness ==
    /\ stats.site = "markdown"
    /\ Len(samples) = 3
    /\ ReportedStdev = [sq |-> Rat(1, 3)]

\* C2 as stated: every collection of size 0 or 1 handed to a site that computes
\* statistics gets a standard deviation of exactly 0, compute_stats of an empty list
\* included (a table generator that skips the row computes nothing).
C2_Original ==
    (stats.site \in {"compute_stats", "plot_grouped_bar", "cpu_hash", "stateful"}
        /\ Len(samples) <= 1) =>
        /\ HasStdev
        /\ ReportedStdev = ZeroStdev

\* C2 amended: a collection of size 1 gets a standard deviation of exactly 0 at every
\* site; an empty one gets 0 from plot_grouped_bar, no row from the table and summary
\* generators, and from compute_stats an empty mapping that holds no stdev at all.
C2_SmallCollections ==
    (stats.site \in StdevSites /\ Len(samples) <= 1) =>
        /\ HasStdev => ReportedStdev = ZeroStdev
        /\ Len(samples) = 1 => HasStdev
        /\ stats.site = "plot_grouped_bar" => HasStdev
        /\ (stats.site = "compute_stats" /\ samples = <<>>) => DOMAIN stats.out = {}

C2_Witness ==
    /\ stats.site = "compute_stats"
    /\ Len(samples) = 1
    /\ stats.out.stdev = ZeroStdev
    /\ stats.out.count = 1

(* How many samples are below x, and how many are at most x. *)
CountLt(xs, x) == Cardinality({i \in 1..Len(xs) : RLt(xs[i], x)})

CountLe(xs, x) == Cardinality({i \in 1..Len(xs) : RLe(xs[i], x)})

RankIndex(n, p) == IF (n * p) \div 100 < n - 1 THEN (n * p) \div 100 ELSE n - 1

\* C3: for a non-empty collection and every p in 0..100, calculate_percentile returns
\* the sample that stands at index min(floor(n*p/100), n-1) of the ascending order:
\* at most that many samples are below it and more than that many are at most it;
\* for p = 100 it is the maximum.
C3_PercentileRank ==
    (stats.site = "percentile" /\ samples # <<>>) =>
        LET idx == RankIndex(Len(samples), stats.p)
        IN  /\ \E i \in 1..Len(samples) : samples[i] = stats.out
            /\ CountLt(samples, stats.out) <= idx
            /\ CountLe(samples, stats.out) >= idx + 1
            /\ idx <= Len(samples) - 1
            /\ stats.p = 100 => \A i \in 1..Len(samples) : RLe(samples[i], stats.out)

C3_Witness ==
    /\ stats.site = "percentile"
    /\ samples = <<RInt(2), RInt(0), RInt(1)>>
    /\ stats.p = 50
    /\ stats.out = RInt(1)

(* |a - b| <= tol for rationals; |q - sqrt(v)| <= tol for a square root. *)
Within(a, b, tol) == RLe(RAbs(RSub(a, b)), tol)

SqrtWithin(q, v, tol) ==
    /\ RLt(tol, q) => RLe(RMul(RSub(q, tol), RSub(q, tol)), v)
    /\ RLe(v, RMul(RAdd(q, tol), RAdd(q, tol)))

RoundTrip(tol) ==
    (stats.site = "markdown" /\ stats.rows # <<>>) =>
        LET row == stats.rows[1]
        IN  /\ Within(ParseFmt2(row.mean.text), Mean(samples), tol)
            /\ Within(ParseFmt2(row.median.text), Median(samples), tol)
            /\ SqrtWithin(ParseFmt2(row.stdev.text), row.stdev_val.sq, tol)

\* C8 as stated: the Mean, Median and Std Dev cells of a markdown row parse back to
\* the values computed from the samples within floating-point tolerance (here even
\* within 0.001, far wider than any floating-point rounding).
C8_Original == RoundTrip(Rat(1, 1000))

\* C8 amended: they parse back to within 0.005, half a unit of the second decimal
\* that the table prints.
C8_RoundTripToHundredths == RoundTrip(Rat(1, 200))

C8_Witness ==
    /\ stats.site = "markdown"
    /\ samples = <<RInt(0), RInt(0), RInt(1)>>
    /\ stats.rows[1].mean.text = 33
    /\ stats.rows[1].median.text = 0
    /\ stats.rows[1].stdev.text = 58

(***************************************************************************)
(* analyze_cold_start_comparison.py: load_data, print_summary, main.       *)
(***************************************************************************)
ScenarioKeys ==
    <<"docker_full_cold", "docker_runtime_cold", "wasmtime_full_cold",
      "wasmtime_runtime_cold">>

EmptyData == [k \in {ScenarioKeys[i] : i \in 1..4} |-> <<>>]

(* load_data filing a row by its runtime alone, used to mutate             *)
(* LoadRowResult.                                                          *)
LoadRowResultIgnoresType(d, row) ==
    LET key == row.runtime \o "_full_cold"
    IN  IF key \notin DOMAIN d THEN d
        ELSE IF ~PyIntOk(row.run) THEN Err("ValueError")
        ELSE IF IsErr(PyFloat(row.build_ms)) THEN Err("ValueError")
        ELSE IF IsErr(PyFloat(row.start_ms)) THEN Err("ValueError")
        ELSE IF IsErr(PyFloat(row.total_ms)) THEN Err("ValueError")
        ELSE [d EXCEPT ![key] =
                 Append(@, [run      |-> PyInt(row.run),
                            build_ms |-> PyFloat(row.build_ms),
                            start_ms |-> PyFloat(row.start_ms),
                            total_ms |-> PyFloat(row.total_ms)])]

(* The loop body of load_data for one CSV row: the data after it, or the     *)
(* exception a numeric field raises.                                       *)
LoadRowResult(d, row) ==
    LET key == row.runtime \o "_" \o row.type
    IN  IF key \notin DOMAIN d THEN d
        ELSE IF ~PyIntOk(row.run) THEN Err("ValueError")
        ELSE IF IsErr(PyFloat(row.build_ms)) THEN Err("ValueError")
        ELSE IF IsErr(PyFloat(row.start_ms)) THEN Err("ValueError")
        ELSE IF IsErr(PyFloat(row.total_ms)) THEN Err("ValueError")
        ELSE [d EXCEPT ![key] =
                 Append(@, [run      |-> PyInt(row.run),
                            build_ms |-> PyFloat(row.build_ms),
                            start_ms |-> PyFloat(row.start_ms),
                            total_ms |-> PyFloat(row.total_ms)])]

TotalTimes(entries) == [i \in 1..Len(entries) |-> entries[i].total_ms]

Comparisons ==
    <<[key1 |-> "docker_full_cold", key2 |-> "wasmtime_full_cold",
       desc |-> "Full Cold (build from source)"],
      [key1 |-> "docker_runtime_cold", key2 |-> "wasmtime_runtime_cold",
       desc |-> "Runtime Cold (serverless cold start)"],
      [key1 |-> "docker_full_cold", key2 |-> "docker_runtime_cold",
       desc |-> "Docker: Full Cold vs Runtime Cold"],
      [key1 |-> "wasmtime_full_cold", key2 |-> "wasmtime_runtime_cold",
       desc |-> "Wasmtime: Full Cold vs Runtime Cold"]>>

(* The winner test turned around, used to mutate ComparisonLine. *)
ComparisonLineSwapped(c, mean1, mean2) ==
    IF RLt(mean1, mean2)
    THEN [kind |-> "comparison", desc |-> c.desc, winner |-> c.key2,
          ratio |-> PyDiv(mean1, mean2)]
    ELSE [kind |-> "comparison", desc |-> c.desc, winner |-> c.key1,
          ratio |-> PyDiv(mean2, mean1)]

(* One comparison of print_summary: the winner and the ratio. *)
ComparisonLine(c, mean1, mean2) ==
    IF RLt(mean2, mean1)
    THEN [kind |-> "comparison", desc |-> c.desc, winner |-> c.key2,
          ratio |-> PyDiv(mean1, mean2)]
    ELSE [kind |-> "comparison", desc |-> c.desc, winner |-> c.key1,
          ratio |-> PyDiv(mean2, mean1)]

(* The comparison loop from comparison i on: the lines printed, and the      *)
(* exception that stopped it ("none" when it ran through).                 *)
RECURSIVE PrintComparisons(_, _)
PrintComparisons(d, i) ==
    IF i > Len(Comparisons) THEN [lines |-> <<>>, raised |-> "none"]
    ELSE LET c == Comparisons[i]
         IN  IF d[c.key1] = <<>> \/ d[c.key2] = <<>> THEN PrintComparisons(d, i + 1)
             ELSE LET line == ComparisonLine(c, Mean(TotalTimes(d[c.key1])),
                                              Mean(TotalTimes(d[c.key2])))
                      rest == PrintComparisons(d, i + 1)
                  IN  IF IsErr(line.ratio)
                      THEN [lines |-> <<>>, raised |-> line.ratio.err]
                      ELSE [lines  |-> <<[line EXCEPT !.ratio = Fmt1(@)] @@
                                         [value |-> line.ratio]>> \o rest.lines,
                            raised |-> rest.raised]

(* The scenario loop without its "if not entries: continue", used to      *)
(* mutate PrintScenarios.                                                  *)
PrintScenariosNoSkip(d, i) ==
    [j \in 1..(Len(ScenarioKeys) + 1 - i) |->
       [kind  |-> "scenario", key |-> ScenarioKeys[i + j - 1],
        stats |-> ComputeStats(TotalTimes(d[ScenarioKeys[i + j - 1]]))]]

(* The per-scenario blocks print_summary prints before the comparisons. *)
RECURSIVE PrintScenarios(_, _)
PrintScenarios(d, i) ==
    IF i > Len(ScenarioKeys) THEN <<>>
    ELSE IF d[ScenarioKeys[i]] = <<>> THEN PrintScenarios(d, i + 1)
    ELSE <<[kind  |-> "scenario", key |-> ScenarioKeys[i],
            stats |-> ComputeStats(TotalTimes(d[ScenarioKeys[i]]))]>>
         \o PrintScenarios(d, i + 1)

CsvRuntimes == {"docker", "wasmtime", "native"}

CsvTypes == {"full_cold", "runtime_cold"}

CsvTotals == {<<"0">>, <<"1">>, <<"2", ".", "5">>, <<"1", ".", "2", ".", "3">>}

CsvRows ==
    {[runtime |-> r, type |-> t, run |-> <<"1">>, build_ms |-> <<"0">>,
      start_ms |-> tot, total_ms |-> tot] :
        r \in CsvRuntimes, t \in CsvTypes, tot \in CsvTotals}

MaxRows == 3

RowCount(d) == Len(d[ScenarioKeys[1]]) + Len(d[ScenarioKeys[2]])
               + Len(d[ScenarioKeys[3]]) + Len(d[ScenarioKeys[4]])

InitColdStart ==
    /\ pc = "load_data"
    /\ data = [d |-> EmptyData, rows |-> 0, csv |-> <<>>]
    /\ printed = [lines |-> <<>>, raised |-> "none"]
    /\ samples = <<>>
    /\ stats = NoStats
    /\ NoLog

(* load_data when the CSV file does not exist: it prints and returns None,  *)
(* and main returns.                                                       *)
CsvMissing ==
    /\ pc = "load_data"
    /\ data.rows = 0
    /\ printed' = [printed EXCEPT !.lines = Append(@, [kind |-> "error_no_csv"])]
    /\ pc' = "done"
    /\ UNCHANGED <<data, statsVars, logVars>>

LoadRow ==
    /\ pc = "load_data"
    /\ data.rows < MaxRows
    /\ \E row \in CsvRows :
         LET res == LoadRowResult(data.d, row)
         IN  IF IsErr(res)
             THEN /\ pc' = "raised"
                  /\ printed' = [printed EXCEPT !.raised = res.err]
                  /\ data' = [data EXCEPT !.rows = @ + 1, !.csv = Append(@, row)]
             ELSE /\ data' = [d |-> res, rows |-> data.rows + 1,
                              csv |-> Append(data.csv, row)]
                  /\ UNCHANGED <<pc, printed>>
    /\ UNCHANGED <<statsVars, logVars>>

(* The end of the CSV: load_data returns data to main. *)
LoadDataReturns ==
    /\ pc = "load_data"
    /\ pc' = "main"
    /\ UNCHANGED <<data, printed, statsVars, logVars>>

MainNoData ==
    /\ pc = "main"
    /\ \A k \in DOMAIN data.d : data.d[k] = <<>>
    /\ printed' = [printed EXCEPT !.lines = Append(@, [kind |-> "no_data"])]
    /\ pc' = "done"
    /\ UNCHANGED <<data, statsVars, logVars>>

PrintSummary ==
    /\ pc = "main"
    /\ \E k \in DOMAIN data.d : data.d[k] # <<>>
    /\ LET cmp == PrintComparisons(data.d, 1)
       IN  /\ printed' = [lines  |-> printed.lines \o PrintScenarios(data.d, 1)
                                     \o cmp.lines,
                          raised |-> cmp.raised]
           /\ pc' = IF cmp.raised = "none" THEN "plots" ELSE "raised"
    /\ UNCHANGED <<data, statsVars, logVars>>

(***************************************************************************)
(* Output files.  results/processed is a mapping from file name to what    *)
(* the file holds, a sequence of the pieces written to it; plt.savefig     *)
(* and Path.write_text both replace what the file held.                    *)
(***************************************************************************)
(* The same write in append mode, used to mutate WriteFile. *)
WriteFileAppend(dir, name, content) ==
    IF name \in DOMAIN dir THEN [dir EXCEPT ![name] = Append(@, content)]
    ELSE (name :> <<content>>) @@ dir

WriteFile(dir, name, content) == (name :> <<content>>) @@ dir

RECURSIVE WriteAll(_, _)
WriteAll(dir, writes) ==
    IF writes = <<>> THEN dir
    ELSE WriteAll(WriteFile(dir, Head(writes).name, Head(writes).content),
                  Tail(writes))

(* plot_speedup_chart with a tie given to Wasmtime, used to mutate         *)
(* SpeedupBar.                                                             *)
SpeedupBarTieToWasmtime(type, docker_mean, wasmtime_mean) ==
    IF RLe(wasmtime_mean, docker_mean)
    THEN [type |-> type, wins |-> "wasmtime",
          speedup |-> PyDiv(docker_mean, wasmtime_mean)]
    ELSE [type |-> type, wins |-> "docker",
          speedup |-> PyDiv(wasmtime_mean, docker_mean)]

(* plot_speedup_chart: the bar of one comparison, who wins and by what     *)
(* factor.                                                                 *)
SpeedupBar(type, docker_mean, wasmtime_mean) ==
    IF RLt(wasmtime_mean, docker_mean)
    THEN [type |-> type, wins |-> "wasmtime",
          speedup |-> PyDiv(docker_mean, wasmtime_mean)]
    ELSE [type |-> type, wins |-> "docker",
          speedup |-> PyDiv(wasmtime_mean, docker_mean)]

(* plot_speedup_chart: the bars, Full Cold then Runtime Cold, each drawn   *)
(* when both runtimes have entries, and the exception a division raised.   *)
RECURSIVE PlotSpeedupBars(_, _)
PlotSpeedupBars(d, types) ==
    IF types = <<>> THEN [bars |-> <<>>, raised |-> "none"]
    ELSE IF d["docker_" \o Head(types)] = <<>> \/ d["wasmtime_" \o Head(types)] = <<>>
    THEN PlotSpeedupBars(d, Tail(types))
    ELSE LET bar == SpeedupBar(Head(types),
                               Mean(TotalTimes(d["docker_" \o Head(types)])),
                               Mean(TotalTimes(d["wasmtime_" \o Head(types)])))
             rest == PlotSpeedupBars(d, Tail(types))
         IN  IF IsErr(bar.speedup) THEN [bars |-> <<>>, raised |-> bar.speedup.err]
             ELSE [bars   |-> <<bar @@ [text |-> Fmt1(bar.speedup)]>> \o rest.bars,
                   raised |-> rest.raised]

PlotSpeedupChart(d) == PlotSpeedupBars(d, <<"full_cold", "runtime_cold">>)

(* The three charts main draws before the speedup chart: the grouped bars  *)
(* with their error bars, the stacked means of build and start time (0 for *)
(* a scenario without entries), and the boxplot (the list [0] for a        *)
(* scenario without entries).                                              *)
ColdStartCharts(d) ==
    <<[name    |-> "cold_warm_comparison_bar.png",
       content |-> [k \in DOMAIN d |-> PlotGroupedBarStats(TotalTimes(d[k]))]],
      [name    |-> "cold_warm_breakdown_stacked.png",
       content |-> [k \in DOMAIN d |->
                     IF d[k] = <<>> THEN [build |-> RInt(0), start |-> RInt(0)]
                     ELSE [build |-> Mean([i \in 1..Len(d[k]) |-> d[k][i].build_ms]),
                           start |-> Mean([i \in 1..Len(d[k]) |-> d[k][i].start_ms])]]],
      [name    |-> "cold_warm_comparison_boxplot.png",
       content |-> [k \in DOMAIN d |->
                     IF d[k] = <<>> THEN <<RInt(0)>> ELSE TotalTimes(d[k])]]>>

(* main after print_summary: the four plots, each saved as soon as it is   *)
(* drawn, and the closing line.                                            *)
PlotsStep(charts, speedup) ==
    IF speedup.raised # "none"
    THEN /\ pc' = "raised"
         /\ OUT_DIR' = WriteAll(OUT_DIR, charts)
         /\ printed' = [lines  |-> printed.lines \o
                                     [i \in 1..Len(charts) |->
                                        [kind |-> "saved", name |-> charts[i].name]],
                        raised |-> speedup.raised]
    ELSE /\ pc' = "done"
         /\ OUT_DIR' = WriteAll(OUT_DIR,
                                charts \o <<[name    |-> "cold_warm_speedup.png",
                                             content |-> speedup.bars]>>)
         /\ printed' = [printed EXCEPT !.lines =
                          @ \o [i \in 1..Len(charts) |->
                                  [kind |-> "saved", name |-> charts[i].name]]
                            \o <<[kind |-> "saved", name |-> "cold_warm_speedup.png"],
                                 [kind |-> "all_saved"]>>]

MainPlots ==
    /\ pc = "plots"
    /\ PlotsStep(ColdStartCharts(data.d), PlotSpeedupChart(data.d))
    /\ UNCHANGED <<data, statsVars, script, pos, cur, seen, SCIPY_AVAILABLE>>

NextColdStart ==
    \/ CsvMissing
    \/ LoadRow
    \/ LoadDataReturns
    \/ MainNoData
    \/ PrintSummary
    \/ MainPlots

SpecColdStart == InitColdStart /\ [][NextColdStart]_vars

FullColdPresent ==
    /\ data.d["docker_full_cold"] # <<>>
    /\ data.d["wasmtime_full_cold"] # <<>>

DockerFullMean == Mean(TotalTimes(data.d["docker_full_cold"]))

WasmtimeFullMean == Mean(TotalTimes(data.d["wasmtime_full_cold"]))

FullColdLines ==
    SelectSeq(printed.lines,
              LAMBDA l : l.kind = "comparison" /\ l.desc = "Full Cold (build from source)")

SummaryPrinted ==
    \/ pc = "plots"
    \/ pc = "raised" /\ printed.raised = "ZeroDivisionError"

(* The Full Cold line names the runtime with the smaller mean and a ratio    *)
(* slower mean / faster mean that is at least 1, also as printed.          *)
FullColdLineRight ==
    /\ Len(FullColdLines) = 1
    /\ LET l  == FullColdLines[1]
           lo == IF RLe(DockerFullMean, WasmtimeFullMean)
                 THEN DockerFullMean ELSE WasmtimeFullMean
           hi == IF RLe(DockerFullMean, WasmtimeFullMean)
                 THEN WasmtimeFullMean ELSE DockerFullMean
       IN  /\ Mean(TotalTimes(data.d[l.winner])) = lo
           /\ l.winner \in {"docker_full_cold", "wasmtime_full_cold"}
           /\ RMul(l.value, lo) = hi
           /\ RLe(RInt(1), l.value)
           /\ l.ratio >= 10

\* C4 as stated: with rows for both docker,full_cold and wasmtime,full_cold the
\* summary prints a Full Cold comparison that names the runtime with the smaller
\* mean total_ms and a ratio slower mean / faster mean >= 1.
C4_Original == (SummaryPrinted /\ FullColdPresent) => FullColdLineRight

\* C4 amended: the same, provided both means are greater than 0 (with a mean of 0
\* the division raises ZeroDivisionError and no comparison is printed).
C4_FullColdWinner ==
    (SummaryPrinted /\ FullColdPresent
        /\ RLt(RInt(0), DockerFullMean) /\ RLt(RInt(0), WasmtimeFullMean)) =>
        FullColdLineRight

C4_Witness ==
    /\ SummaryPrinted
    /\ FullColdPresent
    /\ DockerFullMean = WasmtimeFullMean
    /\ RLt(RInt(0), DockerFullMean)
    /\ FullColdLines[1].winner = "docker_full_cold"
    /\ FullColdLines[1].ratio = 10

(***************************************************************************)
(* Log lines.  A line is a sequence of whitespace-separated fields         *)
(* key=value; the value is a sequence of one-character strings.            *)
(***************************************************************************)
Field(k, v) == [key |-> k, val |-> v]

DigitsDot == Digits \cup {"."}

(* The longest prefix of text made of characters of class: what a greedy   *)
(* [class]+ or \d+ takes from the start of a value.                        *)
RECURSIVE PrefixIn(_, _)
PrefixIn(text, class) ==
    IF text = <<>> \/ Head(text) \notin class THEN <<>>
    ELSE <<Head(text)>> \o PrefixIn(Tail(text), class)

AllIn(text, class) == text # <<>> /\ PrefixIn(text, class) = text

(* What the group "digits, an optional dot, digits" of COLD_START_PATTERN   *)
(* and LATENCY_PATTERN takes from the start of a value.                    *)
DecimalPrefix(text) ==
    LET whole == PrefixIn(text, Digits)
        rest  == SubSeq(text, Len(whole) + 1, Len(text))
    IN  IF whole = <<>> THEN <<>>
        ELSE IF rest # <<>> /\ Head(rest) = "."
        THEN whole \o <<".">> \o PrefixIn(Tail(rest), Digits)
        ELSE whole

(* The text "name=" occurs at the end of the field's "key=": a search is   *)
(* not anchored, so rss_kb= is found inside total_rss_kb= and avg_rss_kb=. *)
KeyEndsWith(key, name) ==
    \/ key = name
    \/ name = "rss_kb" /\ key \in {"total_rss_kb", "avg_rss_kb"}

(* The fields of line where name=[class]+ matches. *)
FieldsWith(line, name, class) ==
    {i \in 1..Len(line) :
        KeyEndsWith(line[i].key, name) /\ PrefixIn(line[i].val, class) # <<>>}

SetMin(S) == CHOOSE x \in S : \A y \in S : x <= y

SetMax(S) == CHOOSE x \in S : \A y \in S : y <= x

NoMatch == [matched |-> FALSE]

(* pattern.search(line) for a pattern name=([0-9.]+): the leftmost match,  *)
(* group 1 the longest run of digits and dots.                             *)
SearchNumber(line, name) ==
    LET at == FieldsWith(line, name, DigitsDot)
    IN  IF at = {} THEN NoMatch
        ELSE [matched |-> TRUE, g1 |-> PrefixIn(line[SetMin(at)].val, DigitsDot)]

(* SCALE_LINE_PATTERN of analyze_cpu_hash_scaling.py: the leftmost conc=   *)
(* that a throughput_iter_s= follows, and, the gap being greedy, the last  *)
(* throughput_iter_s= of the line.                                         *)
IterScaleMatch(line) ==
    LET tpAt   == FieldsWith(line, "throughput_iter_s", DigitsDot)
        concAt == {i \in FieldsWith(line, "conc", Digits) : \E j \in tpAt : j > i}
    IN  IF concAt = {} THEN NoMatch
        ELSE [matched |-> TRUE,
              g1 |-> PrefixIn(line[SetMin(concAt)].val, Digits),
              g2 |-> PrefixIn(line[SetMax(tpAt)].val, DigitsDot)]

(* SCALE_LINE_PATTERN of analyze_http_hello_scaling.py: five consecutive   *)
(* fields, then the last total_rss_kb= that an avg_rss_kb= follows and the *)
(* last avg_rss_kb= of the line.                                           *)
ScaleLineMatch(line) ==
    LET totalAt == FieldsWith(line, "total_rss_kb", Digits)
        avgAt   == FieldsWith(line, "avg_rss_kb", Digits)
        TotalsAfter(i) == {t \in totalAt : t > i + 4 /\ \E a \in avgAt : a > t}
        heads   == {i \in 1..(Len(line) - 4) :
                      /\ KeyEndsWith(line[i].key, "run")
                      /\ AllIn(line[i].val, Digits)
                      /\ line[i + 1].key = "conc"
                      /\ AllIn(line[i + 1].val, Digits)
                      /\ line[i + 2].key = "total_requests"
                      /\ AllIn(line[i + 2].val, Digits)
                      /\ line[i + 3].key = "elapsed_ms"
                      /\ AllIn(line[i + 3].val, DigitsDot)
                      /\ line[i + 4].key = "throughput_rps"
                      /\ PrefixIn(line[i + 4].val, DigitsDot) # <<>>
                      /\ TotalsAfter(i) # {}}
    IN  IF heads = {} THEN NoMatch
        ELSE LET i == SetMin(heads)
                 t == SetMax(TotalsAfter(i))
                 a == SetMax({x \in avgAt : x > t})
             IN  [matched |-> TRUE,
                  g2 |-> line[i + 1].val,
                  g4 |-> line[i + 3].val,
                  g5 |-> PrefixIn(line[i + 4].val, DigitsDot),
                  g6 |-> PrefixIn(line[t].val, Digits),
                  g7 |-> PrefixIn(line[a].val, Digits)]

(* LAT_PATTERN of analyze_http_hello_stateful.py: req=digits, a path=      *)
(* field if it comes next, then the first latency_ms= after them.  g1 is   *)
(* <<>> for None and <<path>> otherwise.                                   *)
LatMatch(line) ==
    LET latAt == FieldsWith(line, "latency_ms", DigitsDot)
        reqAt == {i \in 1..Len(line) :
                    /\ KeyEndsWith(line[i].key, "req")
                    /\ AllIn(line[i].val, Digits)
                    /\ \E j \in latAt : j > i}
    IN  IF reqAt = {} THEN NoMatch
        ELSE LET i == SetMin(reqAt)
                 j == SetMin({x \in latAt : x > i})
             IN  [matched |-> TRUE,
                  g1 |-> IF line[i + 1].key = "path" /\ line[i + 1].val # <<>>
                         THEN <<line[i + 1].val>> ELSE <<>>,
                  g2 |-> PrefixIn(line[j].val, DigitsDot)]

(* COLD_START_PATTERN of the two run parsers. *)
ColdStartMatch(line) ==
    LET at == {i \in 1..Len(line) :
                 /\ KeyEndsWith(line[i].key, "cold_start_ms")
                 /\ DecimalPrefix(line[i].val) # <<>>}
    IN  IF at = {} THEN NoMatch
        ELSE [matched |-> TRUE, g1 |-> DecimalPrefix(line[SetMin(at)].val)]

(* LATENCY_PATTERN of the two run parsers: four consecutive fields, the    *)
(* status code of exactly three digits.                                    *)
LatencyMatch(line) ==
    LET heads == {i \in 1..(Len(line) - 3) :
                    /\ KeyEndsWith(line[i].key, "req")
                    /\ AllIn(line[i].val, Digits)
                    /\ line[i + 1].key = "http_code"
                    /\ Len(line[i + 1].val) = 3
                    /\ AllIn(line[i + 1].val, Digits)
                    /\ line[i + 2].key = "latency_ns"
                    /\ AllIn(line[i + 2].val, Digits)
                    /\ line[i + 3].key = "latency_ms"
                    /\ DecimalPrefix(line[i + 3].val) # <<>>}
    IN  IF heads = {} THEN NoMatch
        ELSE LET i == SetMin(heads)
             IN  [matched |-> TRUE,
                  g1 |-> line[i].val,
                  g2 |-> line[i + 1].val,
                  g4 |-> DecimalPrefix(line[i + 3].val)]

(***************************************************************************)
(* The body of each loader's "for line in f" loop.  It takes the           *)
(* collection built so far and one line, and gives the collection after    *)
(* the line, whether the line matched, and the exception raised, if any.   *)
(***************************************************************************)
Ignored(coll) == [raised |-> "none", coll |-> coll, matched |-> FALSE]

Raised(coll, e) == [raised |-> e.err, coll |-> coll, matched |-> TRUE]

Collected(coll) == [raised |-> "none", coll |-> coll, matched |-> TRUE]

(* d[k].append(x) on a defaultdict(list). *)
DictAppend(d, k, x) ==
    IF k \in DOMAIN d THEN [d EXCEPT ![k] = Append(@, x)] ELSE d @@ (k :> <<x>>)

(* analyze_cpu_hash_comparison.py, load_samples. *)
CpuHashLoadLine(coll, line) ==
    LET m == SearchNumber(line, "outer_ms")
    IN  IF ~m.matched THEN Ignored(coll)
        ELSE LET v == PyFloat(m.g1)
             IN  IF IsErr(v) THEN Raised(coll, v) ELSE Collected(Append(coll, v))

(* load_samples putting a new sample before the others, used to mutate    *)
(* WasmHelloLoadLine.                                                      *)
WasmHelloLoadLinePrepend(coll, line) ==
    LET m == SearchNumber(line, "elapsed_ms")
    IN  IF ~m.matched THEN Ignored(coll)
        ELSE LET v == PyFloat(m.g1)
             IN  IF IsErr(v) THEN Raised(coll, v) ELSE Collected(<<v>> \o coll)

(* analyze_wasm_hello_comparison.py, load_samples. *)
WasmHelloLoadLine(coll, line) ==
    LET m == SearchNumber(line, "elapsed_ms")
    IN  IF ~m.matched THEN Ignored(coll)
        ELSE LET v == PyFloat(m.g1)
             IN  IF IsErr(v) THEN Raised(coll, v) ELSE Collected(Append(coll, v))

(* generate_summary.py, load_samples: name is the field the benchmark's    *)
(* pattern looks for, convert tells whether the benchmark has the          *)
(* kilobytes-to-megabytes convert function.                                *)
SummaryLoadLine(coll, line, name, convert) ==
    LET m == SearchNumber(line, name)
    IN  IF ~m.matched THEN Ignored(coll)
        ELSE LET v == PyFloat(m.g1)
             IN  IF IsErr(v) THEN Raised(coll, v)
                 ELSE IF convert THEN Collected(Append(coll, PyDiv(v, RInt(1024))))
                 ELSE Collected(Append(coll, v))

(* analyze_cpu_hash_scaling.py, load_samples: a mapping from concurrency   *)
(* to the list of throughputs.                                             *)
IterScaleLoadLine(coll, line) ==
    LET m == IterScaleMatch(line)
    IN  IF ~m.matched THEN Ignored(coll)
        ELSE LET conc == PyInt(m.g1)
                 throughput == PyFloat(m.g2)
             IN  IF IsErr(conc) THEN Raised(coll, conc)
                 ELSE IF IsErr(throughput) THEN Raised(coll, throughput)
                 ELSE Collected(DictAppend(coll, conc.n, throughput))

NoLists == [throughput_rps |-> <<>>, total_rss_kb |-> <<>>, avg_rss_kb |-> <<>>]

(* load_samples putting avg_rss_kb before the values already there, used   *)
(* to mutate HttpScaleLoadLine.                                            *)
HttpScaleLoadLineAvgFirst(coll, line) ==
    LET m == ScaleLineMatch(line)
    IN  IF ~m.matched THEN Ignored(coll)
        ELSE LET conc == PyInt(m.g2)
                 throughput_rps == PyFloat(m.g5)
                 total_rss_kb == PyInt(m.g6)
                 avg_rss_kb == PyInt(m.g7)
                 old == IF conc.n \in DOMAIN coll THEN coll[conc.n] ELSE NoLists
             IN  IF IsErr(conc) THEN Raised(coll, conc)
                 ELSE IF IsErr(throughput_rps) THEN Raised(coll, throughput_rps)
                 ELSE IF IsErr(total_rss_kb) THEN Raised(coll, total_rss_kb)
                 ELSE IF IsErr(avg_rss_kb) THEN Raised(coll, avg_rss_kb)
                 ELSE Collected(
                        (conc.n :> [throughput_rps |-> Append(old.throughput_rps,
                                                              throughput_rps),
                                    total_rss_kb   |-> Append(old.total_rss_kb,
                                                              total_rss_kb),
                                    avg_rss_kb     |-> <<avg_rss_kb>> \o old.avg_rss_kb])
                        @@ coll)

(* analyze_http_hello_scaling.py, load_samples: a mapping from concurrency *)
(* to three lists.  The four conversions come before the three appends.    *)
HttpScaleLoadLine(coll, line) ==
    LET m == ScaleLineMatch(line)
    IN  IF ~m.matched THEN Ignored(coll)
        ELSE LET conc == PyInt(m.g2)
                 throughput_rps == PyFloat(m.g5)
                 total_rss_kb == PyInt(m.g6)
                 avg_rss_kb == PyInt(m.g7)
                 old == IF conc.n \in DOMAIN coll THEN coll[conc.n] ELSE NoLists
             IN  IF IsErr(conc) THEN Raised(coll, conc)
                 ELSE IF IsErr(throughput_rps) THEN Raised(coll, throughput_rps)
                 ELSE IF IsErr(total_rss_kb) THEN Raised(coll, total_rss_kb)
                 ELSE IF IsErr(avg_rss_kb) THEN Raised(coll, avg_rss_kb)
                 ELSE Collected(
                        (conc.n :> [throughput_rps |-> Append(old.throughput_rps,
                                                              throughput_rps),
                                    total_rss_kb   |-> Append(old.total_rss_kb,
                                                              total_rss_kb),
                                    avg_rss_kb     |-> Append(old.avg_rss_kb,
                                                              avg_rss_kb)])
                        @@ coll)

RootPath == <<"/">>

(* analyze_http_hello_stateful.py, load_samples_by_path: a mapping from    *)
(* endpoint path to the list of latencies.                                 *)
StatefulLoadLine(coll, line) ==
    LET m == LatMatch(line)
    IN  IF ~m.matched THEN Ignored(coll)
        ELSE LET path == IF m.g1 # <<>> THEN m.g1[1] ELSE RootPath
                 latency_ms == PyFloat(m.g2)
             IN  IF IsErr(latency_ms) THEN Raised(coll, latency_ms)
                 ELSE Collected(DictAppend(coll, path, latency_ms))

Code200 == <<"2", "0", "0">>

(* The loop body without the test of the status code, used to mutate      *)
(* ParseRunLogLine.                                                        *)
ParseRunLogLineAnyCode(rec, line) ==
    LET m_cs  == ColdStartMatch(line)
        m_lat == LatencyMatch(line)
        cold  == IF m_cs.matched THEN <<PyFloat(m_cs.g1)>> ELSE rec.cold
        lat   == IF m_lat.matched THEN Append(rec.lat, PyFloat(m_lat.g4)) ELSE rec.lat
    IN  [raised  |-> "none",
         coll    |-> [rec EXCEPT !.cold = cold, !.lat = lat],
         matched |-> m_cs.matched \/ m_lat.matched]

(* parse_run_log of analyze_http_hello_all.py and of                       *)
(* analyze_native_http_hello.py: the body of the line loop is the same.    *)
(* The record being built has cold (<<>> for None, else <<value>>) and     *)
(* lat; the line matched when either pattern matched.                      *)
ParseRunLogLine(rec, line) ==
    LET m_cs  == ColdStartMatch(line)
        m_lat == LatencyMatch(line)
        cold  == IF m_cs.matched THEN <<PyFloat(m_cs.g1)>> ELSE rec.cold
        lat   == IF m_lat.matched /\ m_lat.g2 = Code200
                 THEN Append(rec.lat, PyFloat(m_lat.g4)) ELSE rec.lat
    IN  [raised  |-> "none",
         coll    |-> [rec EXCEPT !.cold = cold, !.lat = lat],
         matched |-> m_cs.matched \/ m_lat.matched]

(* The end of parse_run_log without the test of the latencies, used to     *)
(* mutate ParseRunLogReturn.                                               *)
ParseRunLogReturnNoLatencyTest(rec, run_id) ==
    IF rec.cold = <<>> THEN <<>>
    ELSE <<[run_id        |-> run_id,
            cold_start_ms |-> rec.cold[1],
            latencies_ms  |-> rec.lat]>>

(* parse_run_log after the line loop: what the caller appends to runs,     *)
(* nothing when the function returns None.  The run identifier is the text *)
(* the file name carries; the files of a directory have distinct names, so *)
(* the index of the file in the sorted glob stands for it.                 *)
ParseRunLogReturn(rec, run_id) ==
    IF rec.cold = <<>> \/ rec.lat = <<>> THEN <<>>
    ELSE <<[run_id        |-> run_id,
            cold_start_ms |-> rec.cold[1],
            latencies_ms  |-> rec.lat]>>

(***************************************************************************)
(* The scripts that read *_run.log files, and the loads each main makes,   *)
(* in the order of its RUNTIMES (for generate_summary.py, BENCHMARKS)      *)
(* table.                                                                  *)
(***************************************************************************)
ListScripts == {"cpu_hash", "wasm_hello", "summary"}

DictScripts == {"cpu_hash_scaling", "http_scaling", "stateful"}

RunScripts == {"http_hello_all", "native_http_hello"}

Scripts == ListScripts \cup DictScripts \cup RunScripts

Load(rt, bench) == [rt |-> rt, bench |-> bench]

Loads(s) ==
    CASE s = "cpu_hash" ->
           <<Load("native", s), Load("docker", s), Load("wasmtime", s),
             Load("wasmedge", s)>>
      [] s = "wasm_hello" ->
           <<Load("wasmtime", s), Load("wasmedge", s)>>
      [] s = "summary" ->
           <<Load("native", "cold_start"), Load("docker", "cold_start"),
             Load("wasmtime", "cold_start"),
             Load("native", "http_latency"), Load("docker", "http_latency"),
             Load("wasmtime", "http_latency"),
             Load("native", "http_throughput"), Load("docker", "http_throughput"),
             Load("wasmtime", "http_throughput"),
             Load("native", "memory_usage"), Load("docker", "memory_usage"),
             Load("wasmtime", "memory_usage"),
             Load("native", "cpu_hash"), Load("docker", "cpu_hash"),
             Load("wasmtime", "cpu_hash"), Load("wasmedge", "cpu_hash")>>
      [] s = "cpu_hash_scaling" ->
           <<Load("native", s), Load("docker", s), Load("wasmtime", s),
             Load("wasmedge", s)>>
      [] s = "http_scaling" ->
           <<Load("native", s), Load("docker", s), Load("wasmtime", s)>>
      [] s = "stateful" ->
           <<Load("native", s), Load("docker", s), Load("wasmtime", s)>>
      [] s = "http_hello_all" ->
           <<Load("native", s), Load("docker", s), Load("wasmcloud_full", s),
             Load("wasmcloud_comp", s)>>
      [] s = "native_http_hello" ->
           <<Load("native", s)>>

(* BENCHMARKS of generate_summary.py: the field each benchmark's pattern   *)
(* looks for, its unit, and whether it has a convert function.             *)
BenchmarkKeys ==
    <<"cold_start", "http_latency", "http_throughput", "memory_usage", "cpu_hash">>

BenchmarkField(bench) ==
    CASE bench = "cold_start" -> "cold_start_ms"
      [] bench = "http_latency" -> "latency_ms"
      [] bench = "http_throughput" -> "throughput_rps"
      [] bench = "memory_usage" -> "rss_kb"
      [] bench = "cpu_hash" -> "outer_ms"

BenchmarkUnit(bench) ==
    CASE bench = "cold_start" -> "ms"
      [] bench = "http_latency" -> "ms"
      [] bench = "http_throughput" -> "req/s"
      [] bench = "memory_usage" -> "MB"
      [] bench = "cpu_hash" -> "ms"

BenchmarkConverts(bench) == bench = "memory_usage"

(* The collection a loader starts from. *)
NoRuns == [runs |-> <<>>, named |-> FALSE, cold |-> <<>>, lat |-> <<>>]

EmptyColl(s) ==
    IF s \in ListScripts THEN <<>>
    ELSE IF s \in DictScripts THEN EmptyDict
    ELSE NoRuns

(* Python's truth test of what a loader returned: "if samples". *)
Truthy(s, coll) ==
    IF s \in ListScripts THEN Len(coll) > 0
    ELSE IF s \in DictScripts THEN DOMAIN coll # {}
    ELSE Len(coll.runs) > 0

(* One step of a loader's line loop, for the script and the load at hand. *)
LoadLine(s, load, coll, line) ==
    CASE s = "cpu_hash" -> CpuHashLoadLine(coll, line)
      [] s = "wasm_hello" -> WasmHelloLoadLine(coll, line)
      [] s = "summary" ->
           SummaryLoadLine(coll, line, BenchmarkField(load.bench),
                           BenchmarkConverts(load.bench))
      [] s = "cpu_hash_scaling" -> IterScaleLoadLine(coll, line)
      [] s = "http_scaling" -> HttpScaleLoadLine(coll, line)
      [] s = "stateful" -> StatefulLoadLine(coll, line)
      [] s \in RunScripts -> ParseRunLogLine(coll, line)

(***************************************************************************)
(* What each main prints for one runtime kept in data.  A report has the   *)
(* lines printed and the exception that cut it short, if any.              *)
(***************************************************************************)
Printed(lines) == [lines |-> lines, raised |-> "none"]

(* One report, then the next unless the first ended in an exception. *)
Then(here, rest) ==
    IF here.raised # "none" THEN here
    ELSE [lines |-> here.lines \o rest.lines, raised |-> rest.raised]

(* compute_confidence_interval without the test of SCIPY_AVAILABLE, used   *)
(* to mutate ComputeConfidenceInterval.                                    *)
ComputeConfidenceIntervalUnguarded(xs) ==
    IF Len(xs) < 2 THEN [given |-> FALSE]
    ELSE [given |-> TRUE, mean |-> Mean(xs), n |-> Len(xs)]

(* analyze_cpu_hash_comparison.py, compute_confidence_interval: (None,     *)
(* None) without scipy or with fewer than two samples, else the interval   *)
(* around the mean that scipy gives for n - 1 degrees of freedom.          *)
ComputeConfidenceInterval(xs) ==
    IF ~SCIPY_AVAILABLE \/ Len(xs) < 2 THEN [given |-> FALSE]
    ELSE [given |-> TRUE, mean |-> Mean(xs), n |-> Len(xs)]

(* analyze_cpu_hash_comparison.py, main: the CPU-HASH SUMMARY loop.  ci is *)
(* the interval the line ends with, when one was given.                    *)
CpuHashReport(rt, xs) ==
    Printed(<<[kind |-> "summary", rt |-> rt, s |-> CpuHashSummaryLine(rt, xs),
               ci |-> ComputeConfidenceInterval(xs)]>>)

(* The inner loop with the threshold of three samples lowered to two, used *)
(* to mutate ComparePair.                                                  *)
ComparePairTwoSamples(rt1, rt2, samples1, samples2) ==
    IF Len(samples1) < 2 \/ Len(samples2) < 2
    THEN Printed(<<[kind |-> "skipped", rt1 |-> rt1, rt2 |-> rt2]>>)
    ELSE LET mean1 == Mean(samples1)
             mean2 == Mean(samples2)
             diff  == PyDiv(RSub(mean2, mean1), mean1)
         IN  IF IsErr(diff) THEN [lines |-> <<>>, raised |-> diff.err]
             ELSE Printed(<<[kind |-> "tested", rt1 |-> rt1, rt2 |-> rt2,
                             mean1 |-> mean1, mean2 |-> mean2,
                             diff_pct |-> RMul(diff, RInt(100))]>>)

(* compare_runtimes_statistically, the body of the inner loop: a pair is   *)
(* skipped with a message, or tested and its means and their relative      *)
(* difference printed; the division by the first mean can raise.           *)
ComparePair(rt1, rt2, samples1, samples2) ==
    IF Len(samples1) < 3 \/ Len(samples2) < 3
    THEN Printed(<<[kind |-> "skipped", rt1 |-> rt1, rt2 |-> rt2]>>)
    ELSE LET mean1 == Mean(samples1)
             mean2 == Mean(samples2)
             diff  == PyDiv(RSub(mean2, mean1), mean1)
         IN  IF IsErr(diff) THEN [lines |-> <<>>, raised |-> diff.err]
             ELSE Printed(<<[kind |-> "tested", rt1 |-> rt1, rt2 |-> rt2,
                             mean1 |-> mean1, mean2 |-> mean2,
                             diff_pct |-> RMul(diff, RInt(100))]>>)

(* analyze_wasm_hello_comparison.py, main: the summary loop. *)
WasmHelloReport(rt, xs) ==
    Printed(<<[kind |-> "summary", rt |-> rt,
               s |-> [mean |-> Mean(xs), median |-> Median(xs),
                      min |-> PyMin(xs), max |-> PyMax(xs), n |-> Len(xs)]]>>)

(* The keys of a mapping from integers, sorted. *)
RECURSIVE SortedKeys(_)
SortedKeys(K) ==
    IF K = {} THEN <<>> ELSE <<SetMin(K)>> \o SortedKeys(K \ {SetMin(K)})

(* analyze_cpu_hash_scaling.py, main: one line per concurrency level. *)
IterScaleReport(rt, conc_map) ==
    LET concs == SortedKeys(DOMAIN conc_map)
    IN  Printed([i \in 1..Len(concs) |->
                   [kind |-> "summary", rt |-> rt, conc |-> concs[i],
                    s |-> [mean |-> Mean(conc_map[concs[i]]),
                           min  |-> PyMin(conc_map[concs[i]]),
                           max  |-> PyMax(conc_map[concs[i]]),
                           n    |-> Len(conc_map[concs[i]])]]])

(* analyze_http_hello_scaling.py, calculate_scaling_efficiency, for the    *)
(* conc_map of one runtime: one entry per concurrency level.               *)
(* The entry without the factor 100, used to mutate EfficiencyEntry. *)
EfficiencyUnscaled(conc_map, conc) ==
    LET baseline_throughput == Mean(conc_map[1].throughput_rps)
        actual_throughput == Mean(conc_map[conc].throughput_rps)
        actual_speedup == PyDiv(actual_throughput, baseline_throughput)
    IN  IF IsErr(actual_speedup) THEN actual_speedup
        ELSE [actual_speedup |-> actual_speedup,
              ideal_speedup  |-> conc,
              efficiency_pct |-> PyDiv(actual_speedup, RInt(conc))]

EfficiencyEntry(conc_map, conc) ==
    LET baseline_throughput == Mean(conc_map[1].throughput_rps)
        actual_throughput == Mean(conc_map[conc].throughput_rps)
        actual_speedup == PyDiv(actual_throughput, baseline_throughput)
        ideal_speedup == RInt(conc)
        eff == IF IsErr(actual_speedup) THEN actual_speedup
               ELSE PyDiv(actual_speedup, ideal_speedup)
    IN  IF IsErr(eff) THEN eff
        ELSE [actual_speedup |-> actual_speedup,
              ideal_speedup  |-> conc,
              efficiency_pct |-> RMul(eff, RInt(100))]

(* The calculation without the test for a concurrency-1 baseline, used to  *)
(* mutate CalculateScalingEfficiency.                                      *)
CalculateScalingEfficiencyNoGuard(conc_map) ==
    IF \E c \in DOMAIN conc_map : 1 \in DOMAIN conc_map /\ IsErr(EfficiencyEntry(conc_map, c))
    THEN [raised |-> "ZeroDivisionError", eff |-> EmptyDict]
    ELSE [raised |-> "none",
          eff |-> [c \in DOMAIN conc_map |->
                     IF 1 \in DOMAIN conc_map THEN EfficiencyEntry(conc_map, c)
                     ELSE [actual_speedup |-> RInt(1), ideal_speedup |-> c,
                           efficiency_pct |-> RInt(100)]]]

CalculateScalingEfficiency(conc_map) ==
    IF DOMAIN conc_map = {} \/ 1 \notin DOMAIN conc_map
    THEN [raised |-> "none", eff |-> EmptyDict]
    ELSE IF \E c \in DOMAIN conc_map : IsErr(EfficiencyEntry(conc_map, c))
    THEN [raised |-> "ZeroDivisionError", eff |-> EmptyDict]
    ELSE [raised |-> "none",
          eff |-> [c \in DOMAIN conc_map |-> EfficiencyEntry(conc_map, c)]]

(* analyze_http_hello_scaling.py, print_summary: the lines of the scaling  *)
(* efficiency calculate_scaling_efficiency returned.                       *)
EfficiencyLines(rt, eff, effKeys) ==
    [i \in 1..Len(effKeys) |->
       [kind |-> "efficiency", rt |-> rt, conc |-> effKeys[i],
        speedup |-> Fmt2(eff[effKeys[i]].actual_speedup),
        efficiency |-> Fmt1(eff[effKeys[i]].efficiency_pct),
        eff_data |-> eff[effKeys[i]]]]

EfficiencyReport(rt, efficiency) ==
    [lines  |-> EfficiencyLines(rt, efficiency.eff, SortedKeys(DOMAIN efficiency.eff)),
     raised |-> efficiency.raised]

(* analyze_http_hello_scaling.py, print_summary: the line of one           *)
(* concurrency level.                                                      *)
LevelLine(rt, conc, lists) ==
    [kind |-> "summary", rt |-> rt, conc |-> conc,
     s |-> ScalingSummaryLine(lists.throughput_rps)[1],
     rss_mb |-> PyDiv(Mean(lists.avg_rss_kb), RInt(1024))]

LevelLines(rt, conc_map, concs) ==
    Printed([i \in 1..Len(concs) |-> LevelLine(rt, concs[i], conc_map[concs[i]])])

(* analyze_http_hello_scaling.py, print_summary, for one runtime: a line   *)
(* per concurrency level, then the scaling efficiency lines.               *)
HttpScaleReport(rt, conc_map) ==
    Then(LevelLines(rt, conc_map, SortedKeys(DOMAIN conc_map)),
         EfficiencyReport(rt, CalculateScalingEfficiency(conc_map)))

StatePath == <<"/", "s", "t", "a", "t", "e">>

(* analyze_http_hello_stateful.py, calculate_overhead_pct. *)
CalculateOverheadPct(stateless_latency, stateful_latency) ==
    IF stateless_latency.n = 0 THEN RInt(0)
    ELSE RMul(PyDiv(RSub(stateful_latency, stateless_latency), stateless_latency),
              RInt(100))

(* analyze_http_hello_stateful.py, print_summary, for one runtime. *)
StatefulReport(rt, path_data) ==
    IF RootPath \in DOMAIN path_data /\ StatePath \in DOMAIN path_data
    THEN Printed(<<[kind |-> "summary", rt |-> rt,
                    stateless |-> StatefulSummaryStats(path_data[RootPath]),
                    stateful  |-> StatefulSummaryStats(path_data[StatePath]),
                    overhead  |-> Fmt1(CalculateOverheadPct(
                                         Mean(path_data[RootPath]),
                                         Mean(path_data[StatePath])))]>>)
    ELSE Printed(<<[kind |-> "paths", rt |-> rt, available |-> DOMAIN path_data,
                    warn_no_state |-> StatePath \notin DOMAIN path_data]>>)

RECURSIVE Flatten(_)
Flatten(seqs) == IF seqs = <<>> THEN <<>> ELSE Head(seqs) \o Flatten(Tail(seqs))

(* analyze_http_hello_all.py, agg_latencies. *)
AggLatencies(latencies) ==
    [mean   |-> Mean(latencies),
     median |-> Median(latencies),
     min    |-> PyMin(latencies),
     max    |-> PyMax(latencies)]

(* analyze_http_hello_all.py, main: the summary line of one runtime. *)
HttpHelloAllReport(rt, runs) ==
    LET cs == [i \in 1..Len(runs) |-> runs[i].cold_start_ms]
        all_lat == Flatten([i \in 1..Len(runs) |-> runs[i].latencies_ms])
    IN  Printed(<<[kind |-> "summary", rt |-> rt,
                   cold |-> [mean |-> Mean(cs), min |-> PyMin(cs), max |-> PyMax(cs)],
                   lat  |-> AggLatencies(all_lat)]>>)

(* analyze_native_http_hello.py, main: one line per parsed run. *)
NativeHttpHelloReport(rt, runs) ==
    Printed([i \in 1..Len(runs) |->
               [kind |-> "summary", rt |-> rt, run |-> i,
                run_id |-> runs[i].run_id,
                cold_start_ms |-> runs[i].cold_start_ms,
                lat |-> [mean   |-> Mean(runs[i].latencies_ms),
                         median |-> Median(runs[i].latencies_ms),
                         min    |-> PyMin(runs[i].latencies_ms),
                         max    |-> PyMax(runs[i].latencies_ms)]]])

(* The report of one runtime, for the scripts whose main loops over data. *)
RuntimeReport(s, rt, coll) ==
    CASE s = "cpu_hash" -> CpuHashReport(rt, coll)
      [] s = "wasm_hello" -> WasmHelloReport(rt, coll)
      [] s = "cpu_hash_scaling" -> IterScaleReport(rt, coll)
      [] s = "http_scaling" -> HttpScaleReport(rt, coll)
      [] s = "stateful" -> StatefulReport(rt, coll)
      [] s = "http_hello_all" -> HttpHelloAllReport(rt, coll.runs)
      [] s = "native_http_hello" -> NativeHttpHelloReport(rt, coll.runs)

(* "for rt, x in data.items()": data keeps the order of insertion, which   *)
(* is the order of the loads; the loop stops at the first exception.       *)
RECURSIVE ReportFrom(_, _, _)
ReportFrom(s, d, i) ==
    IF i > Len(Loads(s)) THEN Printed(<<>>)
    ELSE IF i \notin DOMAIN d THEN ReportFrom(s, d, i + 1)
    ELSE Then(RuntimeReport(s, Loads(s)[i].rt, d[i]), ReportFrom(s, d, i + 1))

(* compare_runtimes_statistically, the two loops: keys is list(data.keys()) *)
(* and the pairs are (keys[i], keys[j]) for i < j, in order; an exception  *)
(* ends them.                                                              *)
RECURSIVE ComparePairs(_, _, _, _)
ComparePairs(d, keys, i, j) ==
    IF i >= Len(keys) THEN Printed(<<>>)
    ELSE IF j > Len(keys) THEN ComparePairs(d, keys, i + 1, i + 2)
    ELSE Then(ComparePair(Loads("cpu_hash")[keys[i]].rt, Loads("cpu_hash")[keys[j]].rt,
                          d[keys[i]], d[keys[j]]),
              ComparePairs(d, keys, i, j + 1))

(* compare_runtimes_statistically: nothing at all without scipy. *)
CompareRuntimesStatistically(d) ==
    IF ~SCIPY_AVAILABLE THEN Printed(<<>>)
    ELSE Then(Printed(<<[kind |-> "tests_header"]>>),
              ComparePairs(d, SortedKeys(DOMAIN d), 1, 2))

(***************************************************************************)
(* generate_summary.py: the three reports made from results.  d maps the   *)
(* index of a load to the samples main kept for it.                        *)
(***************************************************************************)
(* results[bench]: the runtimes of the benchmark that have samples. *)
BenchResults(d, bench) ==
    LET L == Loads("summary")
        At(rt) == CHOOSE i \in DOMAIN d : L[i].bench = bench /\ L[i].rt = rt
    IN  [rt \in {L[i].rt : i \in {j \in DOMAIN d : L[j].bench = bench}} |-> d[At(rt)]]

RuntimeOrder == <<"docker", "native", "wasmedge", "wasmtime">>

(* sorted(bench_results.keys()) *)
SortedRuntimes(K) == LET Has(rt) == rt \in K IN SelectSeq(RuntimeOrder, Has)

(* Joins reports in order, stopping at the first exception. *)
RECURSIVE Chain(_)
Chain(reports) ==
    IF reports = <<>> THEN Printed(<<>>)
    ELSE Then(Head(reports), Chain(Tail(reports)))

(* generate_markdown_table: the "Speedup vs Docker" line of one runtime. *)
SpeedupLine(bench, rt, docker_mean, rt_mean) ==
    LET unit == BenchmarkUnit(bench)
        speedup == IF unit \in {"ms", "s"} THEN PyDiv(docker_mean, rt_mean)
                   ELSE PyDiv(rt_mean, docker_mean)
    IN  IF IsErr(speedup) THEN [lines |-> <<>>, raised |-> speedup.err]
        ELSE Printed(<<[kind |-> "speedup", bench |-> bench, rt |-> rt,
                        text |-> Fmt2(speedup), speedup |-> speedup]>>)

(* generate_markdown_table: the section of one benchmark. *)
MarkdownSection(d, bench) ==
    LET bench_results == BenchResults(d, bench)
        rts == SortedRuntimes(DOMAIN bench_results)
        rows == [i \in 1..Len(rts) |->
                   Printed(<<[kind |-> "md_row", bench |-> bench,
                              row |-> MarkdownRow(rts[i], bench_results[rts[i]],
                                                  BenchmarkUnit(bench))[1]]>>)]
        others == LET NotDocker(rt) == rt # "docker" IN SelectSeq(rts, NotDocker)
        speedups == IF "docker" \in DOMAIN bench_results
                    THEN [i \in 1..Len(others) |->
                            SpeedupLine(bench, others[i],
                                        Mean(bench_results["docker"]),
                                        Mean(bench_results[others[i]]))]
                    ELSE <<>>
    IN  IF DOMAIN bench_results = {} THEN Printed(<<>>)
        ELSE Chain(rows \o speedups)

GenerateMarkdownTable(d) ==
    Chain([b \in 1..Len(BenchmarkKeys) |-> MarkdownSection(d, BenchmarkKeys[b])])

(* generate_latex_table: the rows of one benchmark. *)
LatexSection(d, bench) ==
    LET bench_results == BenchResults(d, bench)
        rts == SortedRuntimes(DOMAIN bench_results)
    IN  Printed([i \in 1..Len(rts) |->
                   [kind |-> "latex_row", bench |-> bench,
                    row |-> LatexRow(rts[i], bench_results[rts[i]])[1]]])

GenerateLatexTable(d) ==
    Chain([b \in 1..Len(BenchmarkKeys) |-> LatexSection(d, BenchmarkKeys[b])])

(* generate_executive_summary: the cold start block. *)
ExecColdStart(d) ==
    LET cold_start == BenchResults(d, "cold_start")
        native_cs == Mean(cold_start["native"])
        docker_cs == Mean(cold_start["docker"])
        wasm_cs == Mean(cold_start["wasmtime"])
        docker_x == PyDiv(docker_cs, native_cs)
        wasm_x == PyDiv(wasm_cs, native_cs)
    IN  IF ~({"native", "docker", "wasmtime"} \subseteq DOMAIN cold_start)
        THEN Printed(<<>>)
        ELSE IF IsErr(docker_x) THEN [lines |-> <<>>, raised |-> docker_x.err]
        ELSE Printed(<<[kind |-> "exec_cold", rt |-> "native", label |-> "fastest",
                        text |-> Fmt2(native_cs), mean |-> native_cs],
                       [kind |-> "exec_cold", rt |-> "docker", label |-> "slower",
                        text |-> Fmt2(docker_cs), mean |-> docker_cs,
                        ratio |-> Fmt2(docker_x)],
                       [kind |-> "exec_cold", rt |-> "wasmtime", label |-> "slower",
                        text |-> Fmt2(wasm_cs), mean |-> wasm_cs,
                        ratio |-> Fmt2(wasm_x)]>>)

(* generate_executive_summary: the throughput and the memory block. *)
ExecMeans(d, bench) ==
    LET results == BenchResults(d, bench)
        rts == SortedRuntimes(DOMAIN results)
    IN  Printed([i \in 1..Len(rts) |->
                   [kind |-> "exec_mean", bench |-> bench, rt |-> rts[i],
                    text |-> Fmt1(Mean(results[rts[i]]))]])

(* generate_executive_summary: the CPU block, relative to native. *)
ExecCpuLine(rt, rt_cpu, native_cpu) ==
    LET ratio == PyDiv(rt_cpu, native_cpu)
    IN  IF IsErr(ratio) THEN [lines |-> <<>>, raised |-> ratio.err]
        ELSE Printed(<<[kind |-> "exec_cpu", rt |-> rt,
                        text |-> Fmt1(RMul(RSub(ratio, RInt(1)), RInt(100)))]>>)

ExecCpu(d) ==
    LET cpu == BenchResults(d, "cpu_hash")
        NotNative(rt) == rt # "native"
        rts == SelectSeq(SortedRuntimes(DOMAIN cpu), NotNative)
    IN  IF "native" \notin DOMAIN cpu THEN Printed(<<>>)
        ELSE Chain([i \in 1..Len(rts) |->
                      ExecCpuLine(rts[i], Mean(cpu[rts[i]]), Mean(cpu["native"]))])

GenerateExecutiveSummary(d) ==
    Chain(<<ExecColdStart(d), ExecMeans(d, "http_throughput"),
            ExecMeans(d, "memory_usage"), ExecCpu(d)>>)

(* main of generate_summary.py after the loads: the three reports, in      *)
(* order.                                                                  *)
SummaryReport(d) ==
    Chain(<<GenerateMarkdownTable(d), GenerateLatexTable(d),
            GenerateExecutiveSummary(d)>>)

(* What main prints from data once the loads are done. *)
MainReport(s, d) ==
    IF s = "summary" THEN SummaryReport(d)
    ELSE IF s = "cpu_hash"
    THEN Then(ReportFrom(s, d, 1), CompareRuntimesStatistically(d))
    ELSE ReportFrom(s, d, 1)

(* A chart drawn from data. *)
Chart(name, d) == [name |-> name, content |-> [of |-> d]]

(* The charts main saves after its text summary, in order.  The first main *)
(* of the cpu-hash script styles its charts and gives the bars error bars, *)
(* the second one (pass 2) does neither; the stateful script draws the     *)
(* overhead chart only when a runtime has both endpoints.                  *)
Outputs(s, d, pass) ==
    CASE s = "cpu_hash" ->
           <<[name |-> "cpu_hash_outer_ms_boxplot.png",
              content |-> [series |-> d, styled |-> pass = 1]],
             [name |-> "cpu_hash_outer_ms_bar.png",
              content |-> [means |-> [i \in DOMAIN d |-> Mean(d[i])],
                           yerr |-> [i \in IF pass = 1 THEN DOMAIN d ELSE {} |->
                                       IF Len(d[i]) > 1 THEN Stdev(d[i])
                                       ELSE ZeroStdev],
                           styled |-> pass = 1]]>>
      [] s = "wasm_hello" ->
           <<Chart("hello_wasm_elapsed_ms_boxplot.png", d),
             Chart("hello_wasm_elapsed_ms_bar.png", d)>>
      [] s = "cpu_hash_scaling" -> <<Chart("cpu_hash_scaling_throughput.png", d)>>
      [] s = "http_scaling" ->
           <<Chart("http_hello_scaling_throughput.png", d),
             Chart("http_hello_scaling_efficiency.png", d),
             Chart("http_hello_scaling_memory_per_instance.png", d),
             Chart("http_hello_scaling_total_memory.png", d)>>
      [] s = "stateful" ->
           <<Chart("http_hello_stateful_comparison_boxplot.png", d)>>
           \o (IF \E i \in DOMAIN d : {RootPath, StatePath} \subseteq DOMAIN d[i]
               THEN <<Chart("http_hello_state_overhead.png", d)>> ELSE <<>>)
      [] s = "http_hello_all" ->
           <<Chart("http_hello_cold_start_mean_by_runtime.png", d),
             Chart("http_hello_latency_boxplot_by_runtime.png", d)>>
      [] s = "native_http_hello" ->
           <<Chart("native_http_hello_cold_start_ms.png", d),
             Chart("native_http_hello_latency_boxplot_ms.png", d),
             Chart("native_http_hello_latency_scatter_ms.png", d)>>

(* generate_summary.py, main: each report is written as soon as it is      *)
(* generated, so an exception in a later one leaves the earlier files.     *)
SummaryWrites(markdown, latex, exec_summary) ==
    IF markdown.raised # "none" THEN <<>>
    ELSE <<[name |-> "benchmark_summary.md", content |-> markdown.lines]>>
         \o (IF latex.raised # "none" THEN <<>>
             ELSE <<[name |-> "benchmark_summary.tex", content |-> latex.lines]>>
                  \o (IF exec_summary.raised # "none" THEN <<>>
                      ELSE <<[name |-> "executive_summary.txt",
                              content |-> exec_summary.lines]>>))

(* The files one main writes: the charts, once the text summary is out. *)
MainWrites(s, d, pass, rep) ==
    IF s = "summary"
    THEN SummaryWrites(GenerateMarkdownTable(d), GenerateLatexTable(d),
                       GenerateExecutiveSummary(d))
    ELSE IF rep.raised = "none" THEN Outputs(s, d, pass) ELSE <<>>

(***************************************************************************)
(* The lines a log file may hold, per script: lines the script's pattern   *)
(* matches, lines of other content, and a malformed number.                *)
(***************************************************************************)
ScaleLine(conc, tp) ==
    <<Field("run", <<"1">>), Field("conc", conc),
      Field("total_requests", <<"1", "0", "0">>),
      Field("elapsed_ms", <<"5", "0", ".", "0">>),
      Field("throughput_rps", tp),
      Field("total_rss_kb", <<"2", "0", "4", "8">>),
      Field("avg_rss_kb", <<"1", "0", "2", "4">>)>>

RequestLine(req, code, ms) ==
    <<Field("req", req), Field("http_code", code),
      Field("latency_ns", <<"1", "0", "0", "0">>), Field("latency_ms", ms)>>

LogLines(s) ==
    CASE s = "cpu_hash" ->
           {<<Field("outer_ms", <<"1", "0", ".", "0">>)>>,
            <<Field("outer_ms", <<"2", "0", ".", "0">>)>>,
            <<Field("outer_ms", <<"3", "0", ".", "0">>)>>,
            <<Field("iterations", <<"5">>)>>,
            <<Field("outer_ms", <<".">>)>>}
      [] s = "wasm_hello" ->
           {<<Field("elapsed_ms", <<"1">>)>>,
            <<Field("elapsed_ms", <<"2", ".", "5">>)>>,
            <<Field("status", <<"o", "k">>)>>}
      [] s = "summary" ->
           {<<Field("cold_start_ms", <<"1">>)>>,
            <<Field("total_rss_kb", <<"2", "0", "4", "8">>),
              Field("avg_rss_kb", <<"1", "0", "2", "4">>)>>,
            <<Field("outer_ms", <<"3">>)>>,
            <<Field("cold_start_ms", <<"2">>)>>,
            <<Field("avg_rss_kb", <<"1", "0", "2", "4">>)>>,
            <<Field("cold_start_ms", <<"1", ".", "2", ".", "3">>)>>}
      [] s = "cpu_hash_scaling" ->
           {<<Field("conc", <<"1">>), Field("throughput_iter_s", <<"4">>)>>,
            <<Field("conc", <<"2">>), Field("throughput_iter_s", <<"6">>)>>,
            <<Field("conc", <<"2">>)>>}
      [] s = "http_scaling" ->
           {ScaleLine(<<"1">>, <<"0">>), ScaleLine(<<"1">>, <<"2">>),
            ScaleLine(<<"2">>, <<"3">>), ScaleLine(<<"0">>, <<"2">>),
            [ScaleLine(<<"1">>, <<"2">>) EXCEPT
               ![4] = Field("elapsed_ms", <<"1", ".", "2", ".", "3">>)],
            ScaleLine(<<"2">>, <<"1", ".", ".", "5">>),
            [ScaleLine(<<"1">>, <<"3">>) EXCEPT
               ![6] = Field("total_rss_kb", <<"4", "0", "9", "6">>),
               ![7] = Field("avg_rss_kb", <<"5", "1", "2">>)],
            <<Field("instance", <<"1">>), Field("rps", <<"2">>)>>}
      [] s = "stateful" ->
           {<<Field("req", <<"1">>), Field("latency_ms", <<"2">>)>>,
            <<Field("req", <<"2">>), Field("path", StatePath),
              Field("latency_ms", <<"3">>)>>,
            <<Field("req", <<"3">>), Field("http_code", Code200),
              Field("path", StatePath), Field("latency_ms", <<"4">>)>>,
            <<Field("req", <<"4">>), Field("latency_ms", <<"0">>)>>,
            <<Field("listening", <<"8", "0">>)>>}
      [] s \in RunScripts ->
           {<<Field("cold_start_ms", <<"5">>)>>,
            <<Field("cold_start_ms", <<"7">>)>>,
            RequestLine(<<"1">>, Code200, <<"1">>),
            RequestLine(<<"2">>, <<"5", "0", "0">>, <<"2">>),
            <<Field("listening", <<"8", "0">>)>>}

(* Bounds: the lines read in one run, and the files of one directory. *)
MaxLines == 3

MaxFiles == 2

(* What has been read: lines in all; in the current load (for the run      *)
(* parsers, the current file) the lines that matched a pattern, those that *)
(* matched the pattern of a sample, and those whose sample is to be kept;  *)
(* how the last load found its directory; and the lines the first load     *)
(* read.                                                                   *)
NothingSeen ==
    [lines |-> 0, matched |-> 0, sampled |-> 0, kept |-> 0, how |-> "none",
     first |-> <<>>]

(* The line carries a sample: for the run parsers, a request latency. *)
CarriesSample(s, matched, m_lat) ==
    IF s \in RunScripts THEN m_lat.matched ELSE matched

(* The line carries a sample the script is to keep: for the run parsers,   *)
(* the latency of a request answered with status 200.                      *)
KeepsSample(s, matched, m_lat) ==
    IF s \in RunScripts THEN m_lat.matched /\ m_lat.g2 = Code200 ELSE matched

One(b) == IF b THEN 1 ELSE 0

(* The count of what was read, after a line that matched or not. *)
SeenAfter(s, line, matched, m_lat) ==
    [seen EXCEPT !.lines = @ + 1,
                 !.first = IF pos.load = 1 THEN Append(@, line) ELSE @,
                 !.matched = @ + One(matched),
                 !.sampled = @ + One(CarriesSample(s, matched, m_lat)),
                 !.kept = @ + One(KeepsSample(s, matched, m_lat))]

InitScripts ==
    /\ script \in Scripts
    /\ pc = "dir"
    /\ pos = [load |-> 1, files |-> 0, pass |-> 1]
    /\ cur = EmptyColl(script)
    /\ data = EmptyDict
    /\ SCIPY_AVAILABLE \in (IF script = "cpu_hash" THEN BOOLEAN ELSE {FALSE})
    /\ printed = Printed(IF script = "cpu_hash" /\ ~SCIPY_AVAILABLE
                         THEN <<[kind |-> "warn_scipy"]>> ELSE <<>>)
    /\ OUT_DIR = EmptyDict
    /\ seen = NothingSeen
    /\ samples = <<>>
    /\ stats = NoStats

(***************************************************************************)
(* One run of a script: main calls the loader for each load in turn; the   *)
(* loader walks the files of the directory and the lines of each file.     *)
(* pc is "dir" between two files and "file" inside one.                    *)
(***************************************************************************)
(* What main prints when a load has returned coll. *)
MainLoadLines(s, load, coll) ==
    IF s = "summary"
    THEN IF Truthy(s, coll)
         THEN <<[kind |-> "count", bench |-> load.bench, rt |-> load.rt,
                 n |-> Len(coll)]>>
         ELSE <<>>
    ELSE IF ~Truthy(s, coll) THEN <<[kind |-> "warn", rt |-> load.rt]>>
    ELSE IF s = "cpu_hash" /\ Len(coll) < 3
    THEN <<[kind |-> "warn_few", rt |-> load.rt, n |-> Len(coll)]>>
    ELSE <<>>

(* The loader returns to main, which keeps what it got or warns, and goes  *)
(* on to the next load.  main of analyze_native_http_hello.py globs the    *)
(* one directory itself and returns at once when it finds no file.         *)
FinishLoad(how) ==
    LET i == pos.load
        load == Loads(script)[i]
    IN  /\ seen' = [seen EXCEPT !.matched = 0, !.sampled = 0, !.kept = 0, !.how = how]
        /\ cur' = EmptyColl(script)
        /\ pos' = [pos EXCEPT !.load = i + 1, !.files = 0]
        /\ IF script = "native_http_hello" /\ pos.files = 0
           THEN /\ printed' = [printed EXCEPT
                                 !.lines = Append(@, [kind |-> "warn", rt |-> load.rt])]
                /\ pc' = "done"
                /\ UNCHANGED data
           ELSE /\ printed' = [printed EXCEPT
                                 !.lines = IF script = "native_http_hello" THEN @
                                           ELSE @ \o MainLoadLines(script, load, cur)]
                /\ data' = IF Truthy(script, cur) THEN (i :> cur) @@ data ELSE data
                /\ pc' = IF i < Len(Loads(script)) THEN "dir" ELSE "loaded"
        /\ UNCHANGED <<script, SCIPY_AVAILABLE, OUT_DIR, statsVars>>

(* The directory does not exist: glob yields nothing (load_samples of      *)
(* generate_summary.py returns before globbing).                           *)
DirMissing ==
    /\ script \in Scripts
    /\ pc = "dir"
    /\ pos.files = 0
    /\ FinishLoad("missing")

(* sorted(glob("*_run.log")) is exhausted. *)
LoaderReturns ==
    /\ script \in Scripts
    /\ pc = "dir"
    /\ FinishLoad(IF pos.files = 0 THEN "no_files" ELSE "files")

(* The next file of the directory.  A run parser reads it only when its    *)
(* name carries a run identifier, and starts a new record for it.          *)
OpenFile ==
    /\ script \in Scripts
    /\ pc = "dir"
    /\ pos.files < MaxFiles
    /\ pos' = [pos EXCEPT !.files = @ + 1]
    /\ \E named \in IF script \in RunScripts THEN BOOLEAN ELSE {TRUE} :
         /\ pc' = IF named THEN "file" ELSE "dir"
         /\ cur' = IF script \in RunScripts /\ named
                   THEN [cur EXCEPT !.named = TRUE, !.cold = <<>>, !.lat = <<>>]
                   ELSE cur
    /\ UNCHANGED <<script, SCIPY_AVAILABLE, OUT_DIR, seen, data, printed, statsVars>>

(* One line of the open file: res is what the loader's loop body makes of  *)
(* it.  An exception ends the script.                                      *)
ParseStep(line, res, m_lat) ==
    /\ seen' = SeenAfter(script, line, res.matched, m_lat)
    /\ IF res.raised # "none"
       THEN /\ pc' = "raised"
            /\ printed' = [printed EXCEPT !.raised = res.raised]
            /\ UNCHANGED cur
       ELSE /\ cur' = res.coll
            /\ UNCHANGED <<pc, printed>>

ParseLine ==
    /\ script \in Scripts
    /\ pc = "file"
    /\ seen.lines < MaxLines
    /\ \E line \in LogLines(script) :
         ParseStep(line,
                   LoadLine(script, Loads(script)[pos.load], cur, line),
                   LatencyMatch(line))
    /\ UNCHANGED <<script, SCIPY_AVAILABLE, OUT_DIR, pos, data, statsVars>>

(* The end of the open file.  parse_run_log returns the record, or None    *)
(* when no cold start or no latency was found (the native script prints a  *)
(* warning then), and the caller appends the record to runs.               *)
CloseFile ==
    /\ script \in Scripts
    /\ pc = "file"
    /\ pc' = "dir"
    /\ IF script \in RunScripts
       THEN /\ cur' = [runs  |-> cur.runs \o ParseRunLogReturn(cur, pos.files),
                       named |-> FALSE, cold |-> <<>>, lat |-> <<>>]
            /\ seen' = [seen EXCEPT !.matched = 0, !.sampled = 0, !.kept = 0]
            /\ printed' = [printed EXCEPT !.lines =
                             IF script # "native_http_hello" THEN @
                             ELSE IF cur.cold = <<>>
                             THEN Append(@, [kind |-> "warn_file", what |-> "cold_start_ms"])
                             ELSE IF cur.lat = <<>>
                             THEN Append(@, [kind |-> "warn_file", what |-> "latency"])
                             ELSE @]
       ELSE UNCHANGED <<cur, seen, printed>>
    /\ UNCHANGED <<script, SCIPY_AVAILABLE, OUT_DIR, pos, data, statsVars>>

(* How main ends.  analyze_cpu_hash_comparison.py defines main twice and   *)
(* calls it after each definition: when the first call returns, the second *)
(* one starts.                                                             *)
AfterMain(raised) ==
    /\ pc' = IF raised # "none" THEN "raised"
             ELSE IF script = "cpu_hash" THEN "second_main"
             ELSE IF DOMAIN data = {} /\ script \in {"http_scaling", "stateful"}
             THEN "exit1"
             ELSE "done"
    /\ UNCHANGED <<pos, data>>

(* "if not data": the message, then return, or sys.exit(1) in the HTTP     *)
(* scaling and the stateful script.  generate_summary.py has no such test. *)
NoDataFound ==
    /\ script \in Scripts \ {"summary"}
    /\ pc = "loaded"
    /\ DOMAIN data = {}
    /\ printed' = [printed EXCEPT !.lines = Append(@, [kind |-> "no_data"])]
    /\ AfterMain("none")
    /\ UNCHANGED <<script, SCIPY_AVAILABLE, OUT_DIR, cur, seen, statsVars>>

(* The text summary main prints from data; the stateful script first warns *)
(* when no runtime has data of the /state endpoint.                        *)
ReportStep(before, rep, writes) ==
    /\ printed' = [lines  |-> printed.lines \o before \o rep.lines,
                   raised |-> rep.raised]
    /\ OUT_DIR' = WriteAll(OUT_DIR, writes)
    /\ AfterMain(rep.raised)

Report ==
    /\ script \in Scripts
    /\ pc = "loaded"
    /\ DOMAIN data # {} \/ script = "summary"
    /\ ReportStep(IF /\ script = "stateful"
                     /\ ~\E i \in DOMAIN data : StatePath \in DOMAIN data[i]
                  THEN <<[kind |-> "warn_no_state"]>> ELSE <<>>,
                  MainReport(script, data),
                  MainWrites(script, data, 1, MainReport(script, data)))
    /\ UNCHANGED <<script, SCIPY_AVAILABLE, cur, seen, statsVars>>

(* The second main of analyze_cpu_hash_comparison.py.  It reads the same   *)
(* directories a moment after the first, so every load returns what it     *)
(* returned before: main prints the same warnings and the same summary,    *)
(* and saves its two charts under the names the first main used.           *)
SecondStep(warnings, rep, writes) ==
    /\ printed' = [lines  |-> printed.lines \o warnings
                              \o (IF DOMAIN data = {} THEN <<[kind |-> "no_data"]>>
                                  ELSE rep.lines),
                   raised |-> IF DOMAIN data = {} THEN "none" ELSE rep.raised]
    /\ OUT_DIR' = IF DOMAIN data = {} THEN OUT_DIR ELSE WriteAll(OUT_DIR, writes)
    /\ pc' = "done"
    /\ pos' = [pos EXCEPT !.pass = 2]

SecondMain ==
    /\ script = "cpu_hash"
    /\ pc = "second_main"
    /\ SecondStep(Flatten([i \in 1..Len(Loads(script)) |->
                     MainLoadLines(script, Loads(script)[i],
                                   IF i \in DOMAIN data THEN data[i] ELSE <<>>)]),
                  MainReport(script, data),
                  MainWrites(script, data, 2, MainReport(script, data)))
    /\ UNCHANGED <<script, SCIPY_AVAILABLE, cur, seen, data, statsVars>>

(* The files one whole invocation writes, in order, when the loaders       *)
(* return d and the text summary is rep: nothing when main returns or      *)
(* exits for lack of data, the charts of both mains for the cpu-hash       *)
(* script.                                                                 *)
RunWrites(s, d, rep) ==
    IF s = "summary" THEN MainWrites(s, d, 1, rep)
    ELSE IF DOMAIN d = {} THEN <<>>
    ELSE IF s = "cpu_hash" THEN MainWrites(s, d, 1, rep) \o MainWrites(s, d, 2, rep)
    ELSE MainWrites(s, d, 1, rep)

(* The script is run a second time on the same logs, results/processed     *)
(* still holding the files of the first run.  The loaders return what they *)
(* returned before, so the run ends where the first one ended: inside a    *)
(* loader when a malformed number ended the first run there (nothing is    *)
(* written then), else after the writes of main.  printed stays what the   *)
(* first run printed.                                                      *)
RunAgainStep(writes) ==
    /\ pc' = "again"
    /\ OUT_DIR' = IF pos.load <= Len(Loads(script)) THEN OUT_DIR
                  ELSE WriteAll(OUT_DIR, writes)

RunAgain ==
    /\ script \in Scripts
    /\ pc \in {"done", "raised", "exit1"}
    /\ RunAgainStep(RunWrites(script, data, MainReport(script, data)))
    /\ UNCHANGED <<script, SCIPY_AVAILABLE, pos, cur, seen, data, printed, statsVars>>

NextScripts ==
    \/ DirMissing
    \/ LoaderReturns
    \/ OpenFile
    \/ ParseLine
    \/ CloseFile
    \/ NoDataFound
    \/ Report
    \/ SecondMain
    \/ RunAgain

SpecScripts == InitScripts /\ [][NextScripts]_vars

(***************************************************************************)
(* compare_runtimes_statistically on its own: data is any mapping main can *)
(* hand it, from the loads that returned samples to their sample lists.    *)
(***************************************************************************)
CompareLists == {[i \in 1..n |-> v] : n \in 1..MaxLen, v \in Values}

InitCompare ==
    /\ script = "cpu_hash"
    /\ pc = "compare"
    /\ SCIPY_AVAILABLE \in BOOLEAN
    /\ \E K \in SUBSET (1..Len(Loads("cpu_hash"))) : data \in [K -> CompareLists]
    /\ printed = Printed(<<>>)
    /\ OUT_DIR = EmptyDict
    /\ pos = [load |-> Len(Loads("cpu_hash")) + 1, files |-> 0, pass |-> 1]
    /\ cur = <<>>
    /\ seen = NothingSeen
    /\ samples = <<>>
    /\ stats = NoStats

DoCompare ==
    /\ pc = "compare"
    /\ printed' = CompareRuntimesStatistically(data)
    /\ pc' = IF printed'.raised = "none" THEN "compared" ELSE "raised"
    /\ UNCHANGED <<data, statsVars, logVars>>

NextCompare == DoCompare

SpecCompare == InitCompare /\ [][NextCompare]_vars

(***************************************************************************)
(* Properties of the script runs.                                          *)
(***************************************************************************)
(* The load that has just returned to main, and its runtime. *)
LastLoad == Loads(script)[pos.load - 1]

(* The last load found its directory missing, or without any *_run.log. *)
LoadSkipped ==
    /\ script \in Scripts
    /\ seen.how \in {"missing", "no_files"}

WarningFor(rt) ==
    \E k \in 1..Len(printed.lines) :
        /\ printed.lines[k].kind = "warn"
        /\ printed.lines[k].rt = rt

(* C5: in every script, when a load has found its directory missing or     *)
(* without any *_run.log file, main has kept nothing for that runtime, has *)
(* printed a warning that names the runtime, and has gone on without an    *)
(* exception: while no line has been read since, the script has not        *)
(* raised.                                                                 *)
C5_SkippedRuntimeWarned ==
    LoadSkipped =>
        /\ (pos.load - 1) \notin DOMAIN data
        /\ WarningFor(LastLoad.rt)
        /\ seen.lines = 0 => pc # "raised"

(* The state C5 is refuted in: generate_summary.py has skipped a runtime   *)
(* and printed nothing about it.                                           *)
C5_SilentSkip ==
    /\ LoadSkipped
    /\ script = "summary"
    /\ ~WarningFor(LastLoad.rt)
    /\ pc = "done"
    /\ DOMAIN data # {}

(* The scaling script's samples of the runtimes loaded so far. *)
ScalingMaps ==
    IF script = "http_scaling" THEN {data[i] : i \in DOMAIN data} ELSE {}

BaselineMean(conc_map) == Mean(conc_map[1].throughput_rps)

(* The divisions of calculate_scaling_efficiency are defined: the mean     *)
(* throughput at concurrency 1 is not 0 and there is no concurrency 0.     *)
Divisible(conc_map) ==
    /\ BaselineMean(conc_map).n # 0
    /\ 0 \notin DOMAIN conc_map

AtBaseline(conc_map) ==
    LET res == CalculateScalingEfficiency(conc_map)
    IN  /\ res.raised = "none"
        /\ 1 \in DOMAIN res.eff
        /\ res.eff[1].efficiency_pct = RInt(100)
        /\ res.eff[1].actual_speedup = RInt(1)

(* C6 as stated: whenever a runtime has concurrency-1 samples,             *)
(* calculate_scaling_efficiency gives efficiency_pct 100 and               *)
(* actual_speedup 1 at concurrency 1, a mean throughput of 0 included.     *)
C6_Original ==
    \A conc_map \in ScalingMaps : 1 \in DOMAIN conc_map => AtBaseline(conc_map)

(* C6: whenever a runtime has concurrency-1 samples whose mean throughput  *)
(* is not 0, and no concurrency-0 samples, calculate_scaling_efficiency    *)
(* gives efficiency_pct 100 and actual_speedup 1 at concurrency 1; when    *)
(* that mean is 0 it raises ZeroDivisionError.                             *)
C6_BaselineEfficiency ==
    \A conc_map \in ScalingMaps :
        1 \in DOMAIN conc_map =>
            /\ Divisible(conc_map) => AtBaseline(conc_map)
            /\ BaselineMean(conc_map).n = 0 =>
                 CalculateScalingEfficiency(conc_map).raised = "ZeroDivisionError"

(* The report has printed 100.0% and 1.00x at concurrency 1. *)
C6_Witness ==
    /\ script = "http_scaling"
    /\ pc = "done"
    /\ \E k \in 1..Len(printed.lines) :
         /\ printed.lines[k].kind = "efficiency"
         /\ printed.lines[k].conc = 1
         /\ printed.lines[k].efficiency = 1000
         /\ printed.lines[k].speedup = 100

(* efficiency_pct of level c is (mean at c / mean at 1) / c * 100, with    *)
(* the divisions multiplied out.                                           *)
EfficiencyFormula(conc_map, c, efficiency_pct) ==
    RMul(RMul(efficiency_pct, RInt(c)), BaselineMean(conc_map))
        = RMul(RInt(100), Mean(conc_map[c].throughput_rps))

EveryLevel(conc_map) ==
    LET res == CalculateScalingEfficiency(conc_map)
    IN  /\ res.raised = "none"
        /\ DOMAIN res.eff = DOMAIN conc_map
        /\ \A c \in DOMAIN conc_map :
             EfficiencyFormula(conc_map, c, res.eff[c].efficiency_pct)

NoBaseline(conc_map) ==
    LET res == CalculateScalingEfficiency(conc_map)
    IN  /\ res.raised = "none"
        /\ res.eff = EmptyDict

(* C7 as stated: calculate_scaling_efficiency returns, for every level c   *)
(* of the runtime, efficiency_pct = (mean throughput at c / mean           *)
(* throughput at concurrency 1) / c * 100, and an empty mapping when the   *)
(* runtime has no concurrency-1 samples.                                   *)
C7_Original ==
    \A conc_map \in ScalingMaps :
        IF 1 \in DOMAIN conc_map THEN EveryLevel(conc_map) ELSE NoBaseline(conc_map)

(* C7: when the runtime has concurrency-1 samples whose mean throughput is *)
(* not 0 and has no concurrency-0 samples, calculate_scaling_efficiency    *)
(* returns that efficiency_pct for every level c; when it has              *)
(* concurrency-1 samples and a division by 0 it raises ZeroDivisionError;  *)
(* when it has no concurrency-1 samples it returns an empty mapping.       *)
C7_EfficiencyFormula ==
    \A conc_map \in ScalingMaps :
        IF 1 \notin DOMAIN conc_map THEN NoBaseline(conc_map)
        ELSE IF Divisible(conc_map) THEN EveryLevel(conc_map)
        ELSE CalculateScalingEfficiency(conc_map).raised = "ZeroDivisionError"

(* The report has printed the efficiency of a level above 1, and a runtime *)
(* without concurrency-1 samples got no efficiency line.                   *)
C7_Witness ==
    /\ script = "http_scaling"
    /\ pc = "done"
    /\ \E k \in 1..Len(printed.lines) :
         /\ printed.lines[k].kind = "efficiency"
         /\ printed.lines[k].conc = 2
         /\ printed.lines[k].efficiency = 750
    /\ \E i \in DOMAIN data :
         /\ 1 \notin DOMAIN data[i]
         /\ ~\E k \in 1..Len(printed.lines) :
               /\ printed.lines[k].kind = "efficiency"
               /\ printed.lines[k].rt = Loads(script)[i].rt

Line10 == <<Field("outer_ms", <<"1", "0", ".", "0">>)>>

Line20 == <<Field("outer_ms", <<"2", "0", ".", "0">>)>>

Line30 == <<Field("outer_ms", <<"3", "0", ".", "0">>)>>

HasOuterMs(line) == \E i \in 1..Len(line) : line[i].key = "outer_ms"

(* The cpu-hash script has read native's directory, and its lines with an  *)
(* outer_ms field were these three.                                        *)
NativeReadThree ==
    /\ script = "cpu_hash"
    /\ pos.load > 1
    /\ SelectSeq(seen.first, HasOuterMs) = <<Line10, Line20, Line30>>

NativeSummary(line) ==
    /\ line.kind = "summary"
    /\ line.rt = "native"
    /\ line.s.mean = RInt(20)
    /\ line.s.median = RInt(20)
    /\ line.s.stdev = [sq |-> RInt(100)]
    /\ line.s.min = RInt(10)
    /\ line.s.max = RInt(30)
    /\ line.s.n = 3

(* C9: when the lines of native's logs that match are outer_ms=10.0,       *)
(* outer_ms=20.0 and outer_ms=30.0, the cpu-hash script keeps the samples  *)
(* 10, 20, 30 for native and its summary gives mean 20, median 20,         *)
(* standard deviation 10 (variance 100), min 10, max 30 and n 3.           *)
C9_NativeEndToEnd ==
    NativeReadThree =>
        /\ data[1] = <<RInt(10), RInt(20), RInt(30)>>
        /\ pc \in {"second_main", "done"} =>
             \E k \in 1..Len(printed.lines) : NativeSummary(printed.lines[k])

C9_Witness ==
    /\ NativeReadThree
    /\ pc = "second_main"
    /\ \E k \in 1..Len(printed.lines) : NativeSummary(printed.lines[k])

(* The number of samples in the collection a loader is building: the       *)
(* entries of the list, of all the lists of the mapping (one of the three  *)
(* lists per level in the HTTP scaling loader), or the latencies of the    *)
(* run record.                                                             *)
RECURSIVE SumLen(_, _)
SumLen(d, K) ==
    IF K = {} THEN 0
    ELSE LET k == CHOOSE x \in K : TRUE
         IN  (IF script = "http_scaling" THEN Len(d[k].throughput_rps) ELSE Len(d[k]))
             + SumLen(d, K \ {k})

SampleCount ==
    IF script \in ListScripts THEN Len(cur)
    ELSE IF script \in DictScripts THEN SumLen(cur, DOMAIN cur)
    ELSE Len(cur.lat)

Loading == script \in Scripts /\ pc \in {"dir", "file"}

(* A step that reads a line matching none of the script's patterns leaves  *)
(* the collections, the output and the control state as they were.         *)
UnmatchedLineIgnored ==
    (seen'.lines = seen.lines + 1 /\ seen'.matched = seen.matched) =>
        /\ cur' = cur
        /\ data' = data
        /\ printed' = printed
        /\ pc' = pc

(* C10 as stated: a line that matches no pattern changes no collection and *)
(* raises nothing, and every loader has collected as many samples as it    *)
(* has read matching lines.                                                *)
C10_Original ==
    /\ [][UnmatchedLineIgnored]_vars
    /\ [](Loading => SampleCount = seen.sampled)

(* C10: a line that matches no pattern changes no collection and raises    *)
(* nothing; while no conversion error has ended the script, a loader of    *)
(* lists has collected one sample per matching line, and parse_run_log has *)
(* collected one latency per matching request line whose http_code is      *)
(* 200, the other matching request lines adding nothing.                   *)
C10_UnmatchedIgnored ==
    /\ [][UnmatchedLineIgnored]_vars
    /\ [](Loading => SampleCount = seen.kept)

(* A run parser has read a request line with another status than 200 and  *)
(* a line that matches nothing, and holds one latency.                     *)
C10_Witness ==
    /\ script \in RunScripts
    /\ pc = "file"
    /\ seen.lines = 3
    /\ seen.matched = 2
    /\ seen.sampled = 2
    /\ seen.kept = 1
    /\ Len(cur.lat) = 1

(***************************************************************************)
(* Malformed numbers.                                                      *)
(***************************************************************************)
(* The numeric texts the script's patterns capture from a line. *)
CapturedNumbers(s, load, line) ==
    LET Groups(m, names) == IF m.matched THEN {m[g] : g \in names} ELSE {}
    IN  CASE s = "cpu_hash" -> Groups(SearchNumber(line, "outer_ms"), {"g1"})
          [] s = "wasm_hello" -> Groups(SearchNumber(line, "elapsed_ms"), {"g1"})
          [] s = "summary" ->
               Groups(SearchNumber(line, BenchmarkField(load.bench)), {"g1"})
          [] s = "cpu_hash_scaling" -> Groups(IterScaleMatch(line), {"g1", "g2"})
          [] s = "http_scaling" ->
               Groups(ScaleLineMatch(line), {"g2", "g4", "g5", "g6", "g7"})
          [] s = "stateful" -> Groups(LatMatch(line), {"g2"})
          [] s \in RunScripts ->
               Groups(ColdStartMatch(line), {"g1"})
               \cup Groups(LatencyMatch(line), {"g1", "g2", "g4"})

MalformedCapture(s, load, line) ==
    \E text \in CapturedNumbers(s, load, line) : IsErr(PyFloat(text))

(* A step of the first load that reads a line with a malformed capture. *)
ReadsMalformed ==
    /\ script \in Scripts
    /\ pos.load = 1
    /\ seen'.lines = seen.lines + 1
    /\ MalformedCapture(script, Loads(script)[1], seen'.first[Len(seen'.first)])

(* C11: when a line matches a pattern and a captured numeric text is       *)
(* malformed, the conversion error ends the script there and then: the     *)
(* step raises ValueError and records nothing.                             *)
C11_MalformedTerminates ==
    [][ReadsMalformed =>
         /\ pc' = "raised"
         /\ printed'.raised = "ValueError"
         /\ cur' = cur
         /\ data' = data]_vars

(* The HTTP scaling loader has read a line whose elapsed_ms is malformed   *)
(* and has recorded the line's throughput; the script goes on.             *)
C11_MalformedElapsedRecorded ==
    /\ script = "http_scaling"
    /\ pc = "file"
    /\ pos.load = 1
    /\ seen.first # <<>>
    /\ MalformedCapture(script, Loads(script)[1], seen.first[Len(seen.first)])
    /\ seen.lines = 1
    /\ 1 \in DOMAIN cur
    /\ Len(cur[1].throughput_rps) = 1

(***************************************************************************)
(* Significance tests.                                                     *)
(***************************************************************************)
(* The unordered pairs of runtimes with data, as pairs of load indices. *)
RuntimePairs == {p \in (DOMAIN data) \X (DOMAIN data) : p[1] < p[2]}

(* The lines compare_runtimes_statistically printed about a pair. *)
PairLines(p) ==
    {k \in 1..Len(printed.lines) :
        /\ printed.lines[k].kind \in {"skipped", "tested"}
        /\ printed.lines[k].rt1 = Loads("cpu_hash")[p[1]].rt
        /\ printed.lines[k].rt2 = Loads("cpu_hash")[p[2]].rt}

(* The pair is handled once, and tested exactly when both sides have three *)
(* samples or more.                                                        *)
HandledOnce(p) ==
    /\ Cardinality(PairLines(p)) = 1
    /\ \A k \in PairLines(p) :
         printed.lines[k].kind = "tested" <=> Len(data[p[1]]) >= 3 /\ Len(data[p[2]]) >= 3

(* The pair is tested and its first mean is zero: the relative difference  *)
(* divides by it.                                                          *)
ZeroFirstMean(p) ==
    /\ Len(data[p[1]]) >= 3
    /\ Len(data[p[2]]) >= 3
    /\ Mean(data[p[1]]).n = 0

(* p comes before q in the order of the two loops. *)
PairBefore(p, q) == p[1] < q[1] \/ (p[1] = q[1] /\ p[2] < q[2])

(* C12 as stated: after compare_runtimes_statistically, every pair of      *)
(* runtimes with data has been handled exactly once, tested when both      *)
(* sides have at least three samples and reported as skipped otherwise.    *)
C12_Original ==
    pc \in {"compared", "raised"} => \A p \in RuntimePairs : HandledOnce(p)

(* C12: with scipy available, the pairs are handled in order, each once,   *)
(* tested when both sides have at least three samples and reported as      *)
(* skipped otherwise, up to the first tested pair whose first mean is      *)
(* zero: there ZeroDivisionError is raised and nothing more is printed.    *)
(* Without scipy nothing is tested and nothing printed.                    *)
C12_PairsHandledOnce ==
    pc \in {"compared", "raised"} =>
      /\ ~SCIPY_AVAILABLE => printed.lines = <<>> /\ pc = "compared"
      /\ SCIPY_AVAILABLE =>
           /\ \A p \in RuntimePairs :
                IF \E q \in RuntimePairs : ZeroFirstMean(q) /\ (q = p \/ PairBefore(q, p))
                THEN PairLines(p) = {}
                ELSE HandledOnce(p)
           /\ pc = "raised" <=> \E q \in RuntimePairs : ZeroFirstMean(q)
           /\ pc = "raised" => printed.raised = "ZeroDivisionError"

(* Four runtimes with data, some pair tested and some pair skipped. *)
C12_Witness ==
    /\ pc = "compared"
    /\ SCIPY_AVAILABLE
    /\ Cardinality(DOMAIN data) = 4
    /\ \E p \in RuntimePairs : \E k \in PairLines(p) : printed.lines[k].kind = "tested"
    /\ \E p \in RuntimePairs : \E k \in PairLines(p) : printed.lines[k].kind = "skipped"
    /\ \A p \in RuntimePairs : HandledOnce(p)

(***************************************************************************)
(* The cpu-hash script without scipy.                                      *)
(***************************************************************************)
LinesOfKind(kinds) ==
    {k \in 1..Len(printed.lines) : printed.lines[k].kind \in kinds}

(* The summary lines printed for the runtime of load i. *)
SummaryLinesOf(i) ==
    {k \in LinesOfKind({"summary"}) : printed.lines[k].rt = Loads(script)[i].rt}

CpuHashCharts == {"cpu_hash_outer_ms_boxplot.png", "cpu_hash_outer_ms_bar.png"}

(* C13: when scipy is unavailable the cpu-hash script prints the           *)
(* missing-dependency warning exactly once, prints no confidence interval  *)
(* and runs no significance test, and once the logs are read it does not   *)
(* fail: each main prints the summary line of every runtime with data and  *)
(* saves both charts.                                                      *)
C13_WithoutScipy ==
    (script = "cpu_hash" /\ ~SCIPY_AVAILABLE) =>
      /\ Cardinality(LinesOfKind({"warn_scipy"})) = 1
      /\ \A k \in LinesOfKind({"summary"}) : ~printed.lines[k].ci.given
      /\ LinesOfKind({"tests_header", "tested", "skipped"}) = {}
      /\ pc = "raised" => pos.load <= Len(Loads(script)) /\ OUT_DIR = EmptyDict
      /\ (pc \in {"second_main", "done"} /\ DOMAIN data # {}) =>
           /\ \A i \in DOMAIN data :
                Cardinality(SummaryLinesOf(i)) = IF pc = "done" THEN 2 ELSE 1
           /\ DOMAIN OUT_DIR = CpuHashCharts

(* Without scipy, a runtime with two samples or more has been summarised   *)
(* by both mains and both charts are saved.                                *)
C13_Witness ==
    /\ script = "cpu_hash"
    /\ ~SCIPY_AVAILABLE
    /\ pc = "done"
    /\ \E i \in DOMAIN data : Len(data[i]) >= 2 /\ Cardinality(SummaryLinesOf(i)) = 2
    /\ DOMAIN OUT_DIR = CpuHashCharts
    /\ Cardinality(LinesOfKind({"warn_scipy"})) = 1

(***************************************************************************)
(* No data at all.                                                         *)
(***************************************************************************)
(* The script has ended and no load gave it a sample. *)
EndedWithoutData ==
    /\ script \in Scripts
    /\ pc \in {"done", "exit1"}
    /\ DOMAIN data = {}

(* The message a script prints when it has nothing to analyse: "No ...     *)
(* data found", or for the native script "No run logs found".              *)
GuidancePrinted ==
    \/ LinesOfKind({"no_data"}) # {}
    \/ script = "native_http_hello" /\ LinesOfKind({"warn"}) # {}

(* C14: in every script, when no runtime or category yields any sample,    *)
(* the script prints guidance and ends without writing any output file.    *)
C14_NoDataNoOutput ==
    EndedWithoutData => GuidancePrinted /\ OUT_DIR = EmptyDict

(* generate_summary.py has ended with no sample at all and has written its *)
(* three reports without a word of guidance.                               *)
C14_EmptyReportsWritten ==
    /\ script = "summary"
    /\ EndedWithoutData
    /\ ~GuidancePrinted
    /\ DOMAIN OUT_DIR = {"benchmark_summary.md", "benchmark_summary.tex",
                         "executive_summary.txt"}

(***************************************************************************)
(* Exit status.                                                            *)
(***************************************************************************)
(* C15: sys.exit(1) for want of data happens in the HTTP scaling script    *)
(* alone, when no runtime has scaling data; every other script that ends   *)
(* for want of data returns normally, and an exception that ends a script  *)
(* comes from the values read, not from their absence.                     *)
C15_ExitStatus ==
    script \in Scripts =>
      /\ pc = "exit1" <=> script = "http_scaling" /\ EndedWithoutData
      /\ pc = "raised" => printed.raised \in {"ValueError", "ZeroDivisionError"}

(* The stateful script has found no sample for any runtime and has left    *)
(* through sys.exit(1).                                                    *)
C15_StatefulExitsOne ==
    /\ script = "stateful"
    /\ pc = "exit1"
    /\ DOMAIN data = {}
    /\ LinesOfKind({"no_data"}) # {}

(***************************************************************************)
(* Speedups of the markdown summary.                                       *)
(***************************************************************************)
(* The means a speedup line compares: Docker's and the runtime's. *)
DockerMeanOf(line) == Mean(BenchResults(data, line.bench)["docker"])

RuntimeMeanOf(line) == Mean(BenchResults(data, line.bench)[line.rt])

(* The larger of two means over the smaller: slower over faster for a      *)
(* duration, faster over slower for a throughput.                          *)
WinnerRatio(mean1, mean2) ==
    IF RLe(mean1, mean2) THEN PyDiv(mean2, mean1) ELSE PyDiv(mean1, mean2)

(* C16: every speedup the markdown summary reports is the winner's ratio,  *)
(* slower mean over faster mean for the benchmarks where lower is better   *)
(* (cold start, latency, memory, cpu hash) and faster over slower for the  *)
(* throughput, and so is at least 1.                                       *)
C16_WinnerRatioReported ==
    script = "summary" =>
      \A k \in LinesOfKind({"speedup"}) :
         /\ printed.lines[k].speedup
              = WinnerRatio(DockerMeanOf(printed.lines[k]), RuntimeMeanOf(printed.lines[k]))
         /\ RLe(RInt(1), printed.lines[k].speedup)

(* A runtime that uses less memory than Docker is reported with a speedup  *)
(* below 1: memory is compared as if more were better.                     *)
C16_MemorySpeedupInverted ==
    /\ script = "summary"
    /\ pc = "done"
    /\ \E k \in LinesOfKind({"speedup"}) :
         /\ printed.lines[k].bench = "memory_usage"
         /\ RLt(RuntimeMeanOf(printed.lines[k]), DockerMeanOf(printed.lines[k]))
         /\ RLt(printed.lines[k].speedup, RInt(1))

(***************************************************************************)
(* Too few samples for a statistic.                                        *)
(***************************************************************************)
(* The loads whose data made a script put 0 in place of a standard         *)
(* deviation: a collection of fewer than two samples that it summarises.   *)
ShortLoads ==
    CASE script \in {"cpu_hash", "summary"} ->
           {i \in DOMAIN data : Len(data[i]) < 2}
      [] script = "http_scaling" ->
           {i \in DOMAIN data :
              \E conc \in DOMAIN data[i] : Len(data[i][conc].throughput_rps) < 2}
      [] script = "stateful" ->
           {i \in DOMAIN data :
              /\ {RootPath, StatePath} \subseteq DOMAIN data[i]
              /\ \E path \in {RootPath, StatePath} : Len(data[i][path]) < 2}
      [] OTHER -> {}

(* A message about the few samples of the runtime of load i. *)
FewSamplesExplained(i) ==
    \E k \in LinesOfKind({"warn_few"}) : printed.lines[k].rt = Loads(script)[i].rt

(* C17: whenever a script has put a default in place of a statistic for    *)
(* lack of samples, it has printed a message that says so.                 *)
C17_DefaultsExplained ==
    (script \in Scripts /\ pc = "done") => \A i \in ShortLoads : FewSamplesExplained(i)

(* generate_summary.py has reported a runtime with a single sample, its    *)
(* standard deviation as 0.00, and has printed nothing about it.           *)
C17_SilentZeroDeviation ==
    /\ script = "summary"
    /\ pc = "done"
    /\ \E i \in ShortLoads :
         /\ ~FewSamplesExplained(i)
         /\ \E k \in LinesOfKind({"md_row"}) :
              /\ printed.lines[k].row.rt = Loads(script)[i].rt
              /\ printed.lines[k].row.n = 1
              /\ printed.lines[k].row.stdev_val = ZeroStdev

(***************************************************************************)
(* The order of the samples.                                               *)
(***************************************************************************)
(* new is old with one more entry at its end. *)
Extended(old, new) == Len(new) = Len(old) + 1 /\ SubSeq(new, 1, Len(old)) = old

(* The mapping e is the mapping d with one more sample at the end of the   *)
(* list (in the HTTP scaling loader, of each of the three lists) of one    *)
(* key, the lists of the other keys being as they were.                    *)
DictExtended(d, e) ==
    \E k \in DOMAIN e :
        /\ DOMAIN e = DOMAIN d \cup {k}
        /\ \A j \in DOMAIN d \ {k} : e[j] = d[j]
        /\ IF script = "http_scaling"
           THEN LET old == IF k \in DOMAIN d THEN d[k] ELSE NoLists
                IN  /\ Extended(old.throughput_rps, e[k].throughput_rps)
                    /\ Extended(old.total_rss_kb, e[k].total_rss_kb)
                    /\ Extended(old.avg_rss_kb, e[k].avg_rss_kb)
           ELSE Extended(IF k \in DOMAIN d THEN d[k] ELSE <<>>, e[k])

(* What a step that reads a line does to the collection being built, when  *)
(* the line adds a sample and when it does not.                            *)
CollectionAfterLine(added) ==
    IF script \in RunScripts
    THEN /\ cur'.runs = cur.runs
         /\ IF added THEN Extended(cur.lat, cur'.lat) ELSE cur'.lat = cur.lat
    ELSE IF ~added THEN cur' = cur
    ELSE IF script \in ListScripts THEN Extended(cur, cur')
    ELSE DictExtended(cur, cur')

(* What the end of a file does: nothing to a list or a mapping; the run of *)
(* the file, with its latencies in line order, goes to the end of runs     *)
(* when the file is kept, and runs stays as it was when it is not.         *)
CollectionAfterFile(fileKept) ==
    IF script \in RunScripts
    THEN IF fileKept
         THEN /\ Extended(cur.runs, cur'.runs)
              /\ cur'.runs[Len(cur'.runs)].latencies_ms = cur.lat
         ELSE cur'.runs = cur.runs
    ELSE cur' = cur

(* A step of a loader or of the loop of main around it keeps the samples   *)
(* collected so far where they are: a line puts its sample at the end, a   *)
(* new file starts after the samples of the files before it, and main      *)
(* stores what the loader built.  field names the count of the lines that  *)
(* add a sample.                                                           *)
LoadStepKeepsOrder(field, fileKept) ==
    Loading =>
        /\ (pc = "file" /\ pc' = "file") =>
              CollectionAfterLine(seen'[field] = seen[field] + 1)
        /\ (pc = "file" /\ pc' = "dir") => CollectionAfterFile(fileKept)
        /\ (pc = "dir" /\ pos'.files = pos.files + 1) =>
              IF script \in RunScripts THEN cur'.runs = cur.runs ELSE cur' = cur
        /\ (pc = "dir" /\ pos'.load = pos.load + 1) =>
              /\ \A i \in DOMAIN data : i \in DOMAIN data' /\ data'[i] = data[i]
              /\ DOMAIN data' \subseteq DOMAIN data \cup {pos.load}
              /\ Truthy(script, cur) =>
                    pos.load \in DOMAIN data' /\ data'[pos.load] = cur

ReadsLogs == script \in Scripts /\ pc \in {"dir", "file", "second_main"}

(* C19: in one invocation no log file is read once an output file has been *)
(* written, and main runs its stages a single time.                        *)
C19_StagesOnceInOrder ==
    [][(ReadsLogs => OUT_DIR = EmptyDict) /\ pos'.pass = 1]_vars

(* analyze_cpu_hash_comparison.py has ended after its second main read the *)
(* logs again and saved the two charts the first main had already saved.   *)
C19_SecondMainRan ==
    /\ script = "cpu_hash"
    /\ pc = "done"
    /\ pos.pass = 2
    /\ DOMAIN OUT_DIR # {}
    /\ \A name \in DOMAIN OUT_DIR : ~OUT_DIR[name][1].styled

(***************************************************************************)
(* Running a script again.                                                 *)
(***************************************************************************)
(* C20: a second run on the same logs leaves results/processed as the      *)
(* first run left it, and every output file holds the content of a single  *)
(* write, the last one.                                                    *)
C20_IdempotentOverwrite ==
    /\ [][pc' = "again" => OUT_DIR' = OUT_DIR]_vars
    /\ [](\A name \in DOMAIN OUT_DIR : Len(OUT_DIR[name]) = 1)

(* generate_summary.py has been run twice on logs that gave it samples,    *)
(* and its three reports are in results/processed.                         *)
C20_Witness ==
    /\ script = "summary"
    /\ pc = "again"
    /\ DOMAIN data # {}
    /\ DOMAIN OUT_DIR = {"benchmark_summary.md", "benchmark_summary.tex",
                         "executive_summary.txt"}

(***************************************************************************)
(* Run records.                                                            *)
(***************************************************************************)
(* What the step that ends a file, or passes over a file whose name has no *)
(* run identifier, does to the run records: one record at the end of runs, *)
(* with the identifier of the file, the cold start found and the           *)
(* latencies collected, when there is a cold start and a latency; nothing  *)
(* otherwise.  The records of the files before it stay as they were.       *)
FileYieldsRecord ==
    script \in RunScripts =>
        /\ (pc = "file" /\ pc' = "dir") =>
              IF cur.named /\ cur.cold # <<>> /\ cur.lat # <<>>
              THEN cur'.runs = Append(cur.runs, [run_id        |-> pos.files,
                                                cold_start_ms |-> cur.cold[1],
                                                latencies_ms  |-> cur.lat])
              ELSE cur'.runs = cur.runs
        /\ (pc = "dir" /\ pc' = "dir" /\ pos'.files = pos.files + 1) =>
              cur'.runs = cur.runs
        /\ (pc = "file" /\ pc' = "file") => cur'.runs = cur.runs

(* The records come from distinct files, in the order of the files, none   *)
(* from a file that has not been read to its end.                          *)
OneRecordPerFile ==
    (script \in RunScripts /\ pc \in {"dir", "file"}) =>
        /\ \A i, j \in 1..Len(cur.runs) :
              i < j => cur.runs[i].run_id < cur.runs[j].run_id
        /\ \A i \in 1..Len(cur.runs) :
              /\ cur.runs[i].run_id <= pos.files
              /\ pc = "file" => cur.runs[i].run_id < pos.files
              /\ cur.runs[i].latencies_ms # <<>>

(* C21: a *_run.log file yields at most one run record, and yields it only *)
(* when its name carries a run identifier, a cold start was found and a    *)
(* latency was collected; the record holds that identifier, the cold start *)
(* and the latencies; otherwise the file yields nothing, and the records   *)
(* of the other files are untouched either way.                            *)
C21_RunRecordPerFile ==
    /\ [][FileYieldsRecord]_vars
    /\ []OneRecordPerFile

(* A run parser has read two files: the first, with a request line and no  *)
(* cold start, yielded nothing; the second yielded the one record.         *)
C21_Witness ==
    /\ script \in RunScripts
    /\ pc = "dir"
    /\ pos.load = 1
    /\ pos.files = 2
    /\ seen.first = <<RequestLine(<<"1">>, Code200, <<"1">>),
                      <<Field("cold_start_ms", <<"5">>)>>,
                      RequestLine(<<"1">>, Code200, <<"1">>)>>
    /\ cur.runs = <<[run_id |-> 2, cold_start_ms |-> RInt(5),
                     latencies_ms |-> <<RInt(1)>>]>>

(***************************************************************************)
(* Empty collections.                                                      *)
(***************************************************************************)
(* What a log-reading main keeps for a runtime holds a sample: the list,   *)
(* every list of the mapping, the runs and the latencies of every run.     *)
HoldsSamples(coll) ==
    CASE script \in ListScripts -> coll # <<>>
      [] script \in {"cpu_hash_scaling", "stateful"} ->
           DOMAIN coll # {} /\ \A k \in DOMAIN coll : coll[k] # <<>>
      [] script = "http_scaling" ->
           /\ DOMAIN coll # {}
           /\ \A k \in DOMAIN coll : /\ coll[k].throughput_rps # <<>>
                                     /\ coll[k].total_rss_kb # <<>>
                                     /\ coll[k].avg_rss_kb # <<>>
      [] script \in RunScripts ->
           /\ coll.runs # <<>>
           /\ \A i \in 1..Len(coll.runs) : coll.runs[i].latencies_ms # <<>>

(* No script has computed a mean over nothing: statistics.mean raises      *)
(* StatisticsError then.                                                   *)
NoEmptyAggregate == printed.raised # "StatisticsError"

(* The lines print_summary printed were computed from scenarios that have  *)
(* entries.                                                                *)
SummaryFromSamples ==
    \A k \in 1..Len(printed.lines) :
        LET l == printed.lines[k]
        IN  /\ l.kind = "scenario" =>
                  /\ data.d[l.key] # <<>>
                  /\ l.stats # EmptyDict
                  /\ l.stats.count = Len(data.d[l.key])
            /\ l.kind = "comparison" =>
                  \A i \in 1..Len(Comparisons) :
                      Comparisons[i].desc = l.desc =>
                          /\ data.d[Comparisons[i].key1] # <<>>
                          /\ data.d[Comparisons[i].key2] # <<>>

(* C22 as stated: what main hands to the reporter holds only collections   *)
(* with a sample, in the cold-start script as well.                        *)
C22_Original ==
    /\ SummaryPrinted => \A key \in DOMAIN data.d : data.d[key] # <<>>
    /\ NoEmptyAggregate

(* C22: a log-reading main keeps a runtime only with a sample in each of   *)
(* its collections; main of the cold-start script hands over all four      *)
(* scenario lists as soon as one of them has an entry, and the reporter    *)
(* passes over the empty ones; no mean is computed over nothing.           *)
C22_EmptyNeverAggregated ==
    /\ script \in Scripts => \A i \in DOMAIN data : HoldsSamples(data[i])
    /\ (script \notin Scripts /\ SummaryPrinted) =>
          /\ \E key \in DOMAIN data.d : data.d[key] # <<>>
          /\ SummaryFromSamples
    /\ NoEmptyAggregate

(* print_summary has printed the block of docker_full_cold and has been    *)
(* handed three scenarios without an entry.                                *)
C22_Witness ==
    /\ pc = "plots"
    /\ data.d["docker_full_cold"] # <<>>
    /\ \A key \in DOMAIN data.d \ {"docker_full_cold"} : data.d[key] = <<>>
    /\ \E k \in 1..Len(printed.lines) :
         /\ printed.lines[k].kind = "scenario"
         /\ printed.lines[k].key = "docker_full_cold"

(***************************************************************************)
(* The order of the samples and the statistics.                            *)
(***************************************************************************)
(* The rearrangements of a sequence. *)
Rearrangements(xs) ==
    {[i \in 1..Len(xs) |-> xs[f[i]]] :
        f \in {g \in [1..Len(xs) -> 1..Len(xs)] :
                 \A i, j \in 1..Len(xs) : g[i] = g[j] => i = j}}

(* C23: mean, median, sample standard deviation, min, max and count, as    *)
(* compute_stats returns them, and calculate_percentile give for every     *)
(* rearrangement of the samples what they give for the samples.            *)
C23_OrderIndependent ==
    /\ stats.site = "compute_stats" =>
          \A q \in Rearrangements(samples) : ComputeStats(q) = stats.out
    /\ stats.site = "percentile" =>
          \A q \in Rearrangements(samples) : CalculatePercentile(q, stats.p) = stats.out

(* The median of the unsorted samples 2, 0, 1 has been asked for. *)
C23_Witness ==
    /\ stats.site = "percentile"
    /\ samples = <<RInt(2), RInt(0), RInt(1)>>
    /\ stats.p = 50
    /\ stats.out = CalculatePercentile(<<RInt(0), RInt(1), RInt(2)>>, 50)
    /\ Cardinality(Rearrangements(samples)) = 6

(***************************************************************************)
(* The cold-start block of the executive summary.                          *)
(***************************************************************************)
(* C24: the runtime the cold-start block labels fastest has the smallest   *)
(* mean of the runtimes in the block, and every "x slower" ratio printed   *)
(* is at least 1.00.                                                       *)
C24_FastestLabelled ==
    script = "summary" =>
      \A k \in LinesOfKind({"exec_cold"}) :
         IF printed.lines[k].label = "fastest"
         THEN \A j \in LinesOfKind({"exec_cold"}) :
                 RLe(printed.lines[k].mean, printed.lines[j].mean)
         ELSE printed.lines[k].ratio >= 100

(* The block calls native the fastest although Docker's mean cold start is *)
(* smaller, and prints Docker as less than 1.00x slower.                   *)
C24_NativeNotFastest ==
    /\ script = "summary"
    /\ pc = "done"
    /\ \E k, j \in LinesOfKind({"exec_cold"}) :
         /\ printed.lines[k].rt = "native"
         /\ printed.lines[k].label = "fastest"
         /\ printed.lines[j].rt = "docker"
         /\ RLt(printed.lines[j].mean, printed.lines[k].mean)
         /\ printed.lines[j].ratio < 100

(***************************************************************************)
(* The status code of a request line.                                      *)
(***************************************************************************)
(* The line the step has just read, while the first load is at work. *)
LineRead == seen'.first[Len(seen'.first)]

(* A run parser reading a line of the first directory adds the latency of  *)
(* the line to the record being built exactly when the line is a request   *)
(* line with http_code 200; a file without any such line adds no run.      *)
LatencyOnly200 ==
    (script \in RunScripts /\ pc = "file" /\ pos.load = 1) =>
        /\ pc' = "file" =>
              cur'.lat = IF /\ LatencyMatch(LineRead).matched
                            /\ LatencyMatch(LineRead).g2 = Code200
                         THEN Append(cur.lat, PyFloat(LatencyMatch(LineRead).g4))
                         ELSE cur.lat
        /\ (pc' = "dir" /\ seen.kept = 0) => cur'.runs = cur.runs

(* C25: a run parser adds a latency to the run record only for a request   *)
(* line whose http_code is 200; a request line with another status leaves  *)
(* the latencies as they were, and a file whose request lines all have     *)
(* another status yields no run record.                                    *)
C25_LatencyOnly200 == [][LatencyOnly200]_vars

(* A file with a cold start and a single request line, answered with 500,  *)
(* has been read to its end and has yielded no run.                        *)
C25_Witness ==
    /\ script \in RunScripts
    /\ pc = "dir"
    /\ pos.load = 1
    /\ pos.files = 1
    /\ seen.first = <<<<Field("cold_start_ms", <<"5">>)>>,
                      RequestLine(<<"2">>, <<"5", "0", "0">>, <<"2">>)>>
    /\ cur.runs = <<>>

(***************************************************************************)
(* The three lists of a concurrency level.                                 *)
(***************************************************************************)
(* The lines among those read that are scaling lines of level conc, and    *)
(* the numbers such a line gives.                                          *)
ScaleLinesOf(lines, conc) ==
    SelectSeq(lines, LAMBDA line : /\ ScaleLineMatch(line).matched
                                   /\ PyInt(ScaleLineMatch(line).g2) = RInt(conc))

(* The lists of a level are as long as one another, hold an entry, and     *)
(* their entries of the same index are the numbers of one line: of the     *)
(* scaling line of that level that has that index among those read.        *)
ListsAligned(lists, lines) ==
    /\ Len(lists.throughput_rps) > 0
    /\ Len(lists.total_rss_kb) = Len(lists.throughput_rps)
    /\ Len(lists.avg_rss_kb) = Len(lists.throughput_rps)
    /\ Len(lines) = Len(lists.throughput_rps)
    /\ \A i \in 1..Len(lines) :
          /\ lists.throughput_rps[i] = PyFloat(ScaleLineMatch(lines[i]).g5)
          /\ lists.total_rss_kb[i] = PyInt(ScaleLineMatch(lines[i]).g6)
          /\ lists.avg_rss_kb[i] = PyInt(ScaleLineMatch(lines[i]).g7)

(* C26: whatever lines the HTTP scaling loader has parsed, the three lists *)
(* of every level it holds have the same length, are not empty, and their  *)
(* i-th entries come from the same line.                                   *)
C26_ListsAligned ==
    (script = "http_scaling" /\ pc \in {"dir", "file"} /\ pos.load = 1) =>
        \A conc \in DOMAIN cur : ListsAligned(cur[conc], ScaleLinesOf(seen.first, conc))

(* The loader has read two lines of level 1 with different memory figures  *)
(* and one of level 2.                                                     *)
C26_Witness ==
    /\ script = "http_scaling"
    /\ pc = "file"
    /\ pos.load = 1
    /\ DOMAIN cur = {1, 2}
    /\ cur[1].throughput_rps = <<RInt(2), RInt(3)>>
    /\ cur[1].total_rss_kb = <<RInt(2048), RInt(4096)>>
    /\ cur[1].avg_rss_kb = <<RInt(1024), RInt(512)>>
    /\ Len(cur[2].avg_rss_kb) = 1

(***************************************************************************)
(* The speedup chart and the printed comparisons.                          *)
(***************************************************************************)
(* The bars of the speedup chart main has saved. *)
SpeedupBars == OUT_DIR["cold_warm_speedup.png"][1]

(* The description print_summary gives the comparison of a start type. *)
DescOf(type) ==
    IF type = "full_cold" THEN "Full Cold (build from source)"
    ELSE "Runtime Cold (serverless cold start)"

(* The comparison line and the bar name the same runtime as the winner,    *)
(* with the same ratio, also as shown with one decimal.                    *)
SameWinner(line, bar) ==
    /\ line.winner = bar.wins \o "_" \o bar.type
    /\ line.value = bar.speedup
    /\ line.ratio = bar.text

(* C27: once the speedup chart is saved, each of its bars has the winner   *)
(* and the ratio of the comparison print_summary printed for the same      *)
(* start type, and print_summary printed no Full Cold or Runtime Cold      *)
(* comparison the chart does not show; this includes equal means.          *)
C27_ChartMatchesSummary ==
    (script = "none" /\ pc = "done" /\ "cold_warm_speedup.png" \in DOMAIN OUT_DIR) =>
        /\ \A b \in 1..Len(SpeedupBars) :
              \E k \in 1..Len(printed.lines) :
                  /\ printed.lines[k].kind = "comparison"
                  /\ printed.lines[k].desc = DescOf(SpeedupBars[b].type)
                  /\ SameWinner(printed.lines[k], SpeedupBars[b])
        /\ \A k \in 1..Len(printed.lines) :
              (/\ printed.lines[k].kind = "comparison"
               /\ \E type \in {"full_cold", "runtime_cold"} :
                     printed.lines[k].desc = DescOf(type)) =>
                  \E b \in 1..Len(SpeedupBars) :
                      /\ printed.lines[k].desc = DescOf(SpeedupBars[b].type)
                      /\ SameWinner(printed.lines[k], SpeedupBars[b])

(* Docker and Wasmtime have the same mean for Full Cold: the chart and the *)
(* summary both give the comparison to Docker, with the ratio 1.0.         *)
C27_Witness ==
    /\ script = "none"
    /\ pc = "done"
    /\ "cold_warm_speedup.png" \in DOMAIN OUT_DIR
    /\ Len(SpeedupBars) = 1
    /\ SpeedupBars[1].type = "full_cold"
    /\ SpeedupBars[1].wins = "docker"
    /\ SpeedupBars[1].speedup = RInt(1)
    /\ \E k \in 1..Len(printed.lines) :
         /\ printed.lines[k].kind = "comparison"
         /\ printed.lines[k].winner = "docker_full_cold"
         /\ printed.lines[k].ratio = 10

(***************************************************************************)
(* The rows of the CSV file and the scenario lists.                        *)
(***************************************************************************)
KeyOf(row) == row.runtime \o "_" \o row.type

(* The rows of a scenario among the rows read, in the order of the file,   *)
(* and the rows of any of the four scenarios.                              *)
RowsOf(csv, key) == SelectSeq(csv, LAMBDA row : KeyOf(row) = key)

KnownRows(csv) == SelectSeq(csv, LAMBDA row : KeyOf(row) \in DOMAIN EmptyData)

(* A numeric field of the row is not a number. *)
MalformedRow(row) ==
    \/ ~PyIntOk(row.run)
    \/ IsErr(PyFloat(row.build_ms))
    \/ IsErr(PyFloat(row.start_ms))
    \/ IsErr(PyFloat(row.total_ms))

(* load_data was ended by a conversion. *)
LoadRaised == script = "none" /\ pc = "raised" /\ printed.raised = "ValueError"

(* Every scenario list holds the rows of its key among csv, one entry per  *)
(* row and in their order, and nothing else.                               *)
RowsFiled(csv) ==
    /\ \A key \in DOMAIN data.d :
          /\ Len(data.d[key]) = Len(RowsOf(csv, key))
          /\ \A i \in 1..Len(data.d[key]) :
                data.d[key][i].total_ms = PyFloat(RowsOf(csv, key)[i].total_ms)
    /\ RowCount(data.d) = Len(KnownRows(csv))

(* C28 as stated: every row read with the key of a scenario is in the list *)
(* of that scenario and in no other, the other rows are in none.           *)
C28_Original == script = "none" => RowsFiled(data.csv)

(* C28: every row read with the key of a scenario and well-formed numbers  *)
(* is in the list of that scenario and in no other, the rows with another  *)
(* key are in none; a row with the key of a scenario and a malformed       *)
(* number is not filed: the conversion raises ValueError and ends          *)
(* load_data with the lists as the rows before it left them.               *)
C28_RowsFiled ==
    script = "none" =>
        IF LoadRaised
        THEN /\ RowsFiled(SubSeq(data.csv, 1, Len(data.csv) - 1))
             /\ KeyOf(data.csv[Len(data.csv)]) \in DOMAIN EmptyData
             /\ MalformedRow(data.csv[Len(data.csv)])
        ELSE RowsFiled(data.csv)

(* Three rows have been read: one of docker_full_cold, one of the unknown  *)
(* native_full_cold and one of wasmtime_runtime_cold.                      *)
C28_Witness ==
    /\ script = "none"
    /\ pc = "main"
    /\ Len(data.csv) = 3
    /\ KeyOf(data.csv[1]) = "docker_full_cold"
    /\ KeyOf(data.csv[2]) = "native_full_cold"
    /\ KeyOf(data.csv[3]) = "wasmtime_runtime_cold"
    /\ Len(data.d["docker_full_cold"]) = 1
    /\ Len(data.d["wasmtime_runtime_cold"]) = 1
    /\ RowCount(data.d) = 2

(***************************************************************************)
(* The endpoint paths of the stateful script.                              *)
(***************************************************************************)
(* The path a line names: the value of its path field, "/" without one. *)
LinePath(line) ==
    IF \E i \in 1..Len(line) : line[i].key = "path"
    THEN line[CHOOSE i \in 1..Len(line) : line[i].key = "path"].val
    ELSE RootPath

(* The latencies of the matching lines that name the path, in the order    *)
(* read.                                                                   *)
LatenciesOf(lines, path) ==
    LET Named(line) == LatMatch(line).matched /\ LinePath(line) = path
        named == SelectSeq(lines, Named)
    IN  [i \in 1..Len(named) |-> PyFloat(LatMatch(named[i]).g2)]

(* The overhead of a stateful mean over a stateless one, in percent, and 0 *)
(* for a stateless mean of 0.                                              *)
OverheadPct(stateless, stateful) ==
    IF stateless = RInt(0) THEN RInt(0)
    ELSE RMul(PyDiv(RSub(stateful, stateless), stateless), RInt(100))

(* C29: the stateful script files the latency of a matching line under the *)
(* path the line names, "/" when it names none, and reports as overhead 0  *)
(* for a stateless mean of 0 and (stateful - stateless) / stateless * 100  *)
(* otherwise.                                                              *)
C29_FiledByPath ==
    script = "stateful" =>
        /\ (pc \in {"dir", "file"} /\ pos.load = 1) =>
              \A path \in DOMAIN cur \cup {RootPath, StatePath} :
                  LatenciesOf(seen.first, path)
                    = IF path \in DOMAIN cur THEN cur[path] ELSE <<>>
        /\ \A k \in LinesOfKind({"summary"}) :
              printed.lines[k].overhead
                = Fmt1(OverheadPct(printed.lines[k].stateless.mean,
                                   printed.lines[k].stateful.mean))

(* The line req=3 http_code=200 path=/state latency_ms=4 has been read and *)
(* its latency is filed under "/": nothing is filed under /state.          *)
C29_StateFiledUnderRoot ==
    /\ script = "stateful"
    /\ pc = "file"
    /\ pos.load = 1
    /\ seen.first = <<<<Field("req", <<"3">>), Field("http_code", Code200),
                        Field("path", StatePath), Field("latency_ms", <<"4">>)>>>>
    /\ DOMAIN cur = {RootPath}
    /\ cur[RootPath] = <<RInt(4)>>
====
